---- MODULE Spec2Model ----
(***************************************************************************)
(* Transient network links of github.com/thediveo/notwork: the creation    *)
(* engine link.NewTransient, the teardowns it registers with Ginkgo's       *)
(* DeferCleanup, and the part of the kernel's RTNETLINK behaviour these     *)
(* depend on (links per network namespace, names, interface indices).       *)
(***************************************************************************)
EXTENDS Integers, Sequences, FiniteSets, TLC

(***************************************************************************)
(* Bounds of the model.                                                     *)
(***************************************************************************)
\* number of link.NewTransient calls one test node makes
MaxCalls == 2

\* the network namespaces of the model; the test's thread starts in HostNs
Namespaces == {"n0", "n1", "n2"}
HostNs == "n0"

\* the tasks (go routines) that call into the package
Tasks == {"t1"}

\* the numbers rand.Intn(len(base62chars)) is seen to return
RandInts == {0, 61}

\* the length of the longest prefix the random names are asked for
MaxPrefixLen == 13

(***************************************************************************)
(* Program constants.                                                       *)
(***************************************************************************)
maxNifnameLen == 15
minRandomLen == 4
MaxAttempts == 10

(***************************************************************************)
(* Namespace references as carried by netlink.LinkAttrs.Namespace,          *)
(* netlink.Veth.PeerNamespace and namespaced.Link.LinkNamespace: nil, a     *)
(* netlink.NsFd, or a value of any other type.  An NsFd of "bad" is a file  *)
(* descriptor that does not reference a network namespace.                  *)
(***************************************************************************)
NoNs == [type |-> "nil", ns |-> "none"]
NsFd(n) == [type |-> "NsFd", ns |-> n]
OtherRef == [type |-> "string", ns |-> "none"]

\* destination and link namespace references that NewHandleAt accepts, as
\* pairs <<destination, link namespace>>
ValidPairs ==
    { <<NoNs, NoNs>>, <<NoNs, NsFd("n0")>>, <<NoNs, NsFd("n1")>>,
      <<NsFd("n0"), NoNs>>, <<NsFd("n1"), NoNs>>, <<NsFd("n1"), NsFd("n1")>>,
      <<NsFd("n2"), NsFd("n1")>>, <<NsFd("n0"), NsFd("n1")>> }

\* pairs with a reference of another type or with a bad file descriptor
InvalidPairs ==
    { <<OtherRef, NoNs>>, <<NsFd("bad"), NoNs>>, <<NoNs, OtherRef>>,
      <<NoNs, NsFd("bad")>>, <<NsFd("n1"), OtherRef>>, <<NsFd("bad"), NsFd("n1")>>,
      <<OtherRef, NsFd("n1")>> }

\* the pairs the MACVLAN and the VETH requests of the model use
ParentPairs ==
    { <<NoNs, NoNs>>, <<NoNs, NsFd("n1")>>, <<NsFd("n1"), NoNs>>,
      <<NsFd("n2"), NsFd("n1")>> }

PairedPairs ==
    { <<NoNs, NoNs>>, <<NsFd("n1"), NoNs>>, <<NsFd("n2"), NsFd("n1")>>,
      <<NoNs, NsFd("n1")>> }

ParentIndices == {0, 2}

\* the prefixes the callers pass: one that fits and one that is too long
ShortPrefix == <<"d", "m", "y", "-">>
LongPrefix == <<"a", "-", "v", "e", "r", "y", "-", "l", "o", "n", "g", "-">>

NoName == << >>

(***************************************************************************)
(* Link descriptions (netlink.Link) and the namespaced.Link wrapper.        *)
(***************************************************************************)
LinkDesc(kind, dest, parent, peerns) ==
    [kind |-> kind, Name |-> NoName, Index |-> 0, Namespace |-> dest,
     ParentIndex |-> parent, PeerName |-> NoName, PeerNamespace |-> peerns]

NoLink == LinkDesc("none", NoNs, 0, NoNs)

\* a caller passes a plain netlink.Link or one wrapped with a link namespace
Wrapped(l, linkns) == [wrapped |-> TRUE, Link |-> l, LinkNamespace |-> linkns]
Plain(l) == [wrapped |-> FALSE, Link |-> l, LinkNamespace |-> NoNs]

Wrap(l, linkns) == IF linkns = NoNs THEN Plain(l) ELSE Wrapped(l, linkns)

\* what the test nodes pass to link.NewTransient
Requests ==
    { [arg |-> Wrap(LinkDesc("dummy", p[1], 0, NoNs), p[2]), prefix |-> ShortPrefix] :
        p \in ValidPairs \cup InvalidPairs }
    \cup { [arg |-> Wrap(LinkDesc("dummy", NoNs, 0, NoNs), NoNs), prefix |-> LongPrefix] }
    \cup { [arg |-> Wrap(LinkDesc("macvlan", p[1], i, NoNs), p[2]), prefix |-> ShortPrefix] :
        p \in ParentPairs, i \in ParentIndices }
    \cup { [arg |-> Wrap(LinkDesc("veth", p[1], 0, NoNs), p[2]), prefix |-> ShortPrefix] :
        p \in PairedPairs }

Unwrap(link) ==
    IF link.wrapped
    THEN [l |-> link.Link, namespace |-> link.LinkNamespace]
    ELSE [l |-> link.Link, namespace |-> NoNs]

(***************************************************************************)
(* Random interface names.                                                  *)
(***************************************************************************)
base62chars ==
    <<"0", "1", "2", "3", "4", "5", "6", "7", "8", "9",
      "a", "b", "c", "d", "e", "f", "g", "h", "i", "j", "k", "l", "m",
      "n", "o", "p", "q", "r", "s", "t", "u", "v", "w", "x", "y", "z",
      "A", "B", "C", "D", "E", "F", "G", "H", "I", "J", "K", "L", "M",
      "N", "O", "P", "Q", "R", "S", "T", "U", "V", "W", "X", "Y", "Z">>

\* the outcomes of the maxNifnameLen draws of rand.Intn of one name
RandomDraws == { [i \in 1..maxNifnameLen |-> n] : n \in RandInts }

\* a check that reserves no room for the random part
PrefixLongerThanName(prefix) == Len(prefix) > maxNifnameLen

PrefixTooLong(prefix) == Len(prefix) > maxNifnameLen - minRandomLen

\* lines 277-282: the prefix, then one character of base62chars per draw
base62Nifname(prefix, draws) ==
    [idx \in 1..maxNifnameLen |->
        IF idx <= Len(prefix) THEN prefix[idx] ELSE base62chars[draws[idx] + 1]]

(***************************************************************************)
(* The kernel: links of all network namespaces.  A link has an identity    *)
(* (id, never reused), lives in one namespace and has an interface index    *)
(* that is unique in that namespace.                                        *)
(***************************************************************************)
VARIABLES
    links,      \* the links that exist, in all namespaces
    nextIdx,    \* per namespace, the next interface index to hand out
    nextId,     \* the next link identity
    threadNs,   \* per task, the network namespace of its OS-level thread
    sessions,   \* netlink.Handle values created by NewHandleAt
    nsfds,      \* namespace file descriptors opened from procfs
    call,       \* per task, the link.NewTransient call it is in or made last
    cleanups,   \* Ginkgo's stack of DeferCleanup handlers
    torndown,   \* the handlers that have run, in order
    phase,      \* "body" while the test node runs, then "cleanup"
    ncalls,     \* calls of link.NewTransient made so far
    nifname,    \* the call of link.RandomNifname of a test node
    vethcall,   \* per task, the veth.NewTransient call it made last
    nsrefs,     \* per namespace, the state of the caller's descriptor of it
    pins,       \* per task, the LockOSThread calls not yet undone
    threadMnt,  \* per task, the mount namespace of its OS-level thread
    made,       \* the namespaces unshare has made
    prov,       \* per task, its calls of the namespace providers
    helpers,    \* the tasks mntns.NewTransient and mntns.Execute started
    nsid,       \* netns.NsID: the ids of the namespaces and the calls
    up,         \* link.EnsureUp: the link and the polls
    nds         \* package netdevsim: the devices and the calls

\* what link.NewTransient and its teardowns leave alone
provvars == <<pins, threadMnt, made, prov>>

\* what neither link.NewTransient nor the providers of package netns touch
latervars == <<nsid, up, nds>>

restvars == <<helpers, latervars>>

others == <<nifname, vethcall, nsrefs, provvars, restvars>>

\* what link.NewTransient and its teardowns work on
linkvars == <<links, nextIdx, nextId, threadNs, sessions, nsfds, call, cleanups,
              torndown, phase, ncalls>>

vars == <<links, nextIdx, nextId, threadNs, sessions, nsfds, call, cleanups,
          torndown, phase, ncalls, nifname, vethcall, nsrefs,
          pins, threadMnt, made, prov, helpers,
          nsid,
          up,
          nds>>

LoName == <<"l", "o">>

Loopback(ns, id) ==
    [id |-> id, ns |-> ns, idx |-> 1, name |-> LoName, kind |-> "loopback",
     parent |-> 0, peer |-> 0]

InUse(L, ns, name) == \E l \in L : l.ns = ns /\ l.name = name

\* netlink.Handle.LinkByName through a socket in namespace ns
LinkByName(L, ns, name) == { l \in L : l.ns = ns /\ l.name = name }

LinkByIndex(L, ns, idx) == { l \in L : l.ns = ns /\ l.idx = idx }


(***************************************************************************)
(* RTM_NEWLINK with NLM_F_CREATE|NLM_F_EXCL, sent over a socket in          *)
(* namespace sock.  The link ends up in the namespace its Namespace         *)
(* attribute references and otherwise in the socket's namespace; a parent   *)
(* index is looked up in the socket's namespace; a VETH peer without a peer *)
(* namespace ends up in the socket's namespace.                             *)
(***************************************************************************)
TargetNs(sock, d) ==
    IF d.Namespace.type = "NsFd" THEN d.Namespace.ns ELSE sock

PeerNs(sock, d) ==
    IF d.PeerNamespace.type = "NsFd" THEN d.PeerNamespace.ns ELSE sock

\* the lower device a MACVLAN attaches to: a MACVLAN as parent stands for
\* its own lower device
LowerDev(L, sock, d) ==
    LET found == LinkByIndex(L, sock, d.ParentIndex)
    IN  IF found = {} THEN 0
        ELSE LET p == CHOOSE l \in found : TRUE
             IN  IF p.kind = "macvlan" THEN p.parent ELSE p.id

LinkAddError(L, sock, d) ==
    LET tgt == TargetNs(sock, d)
        pns == PeerNs(sock, d)
    IN  IF InUse(L, sock, d.Name) THEN "EEXIST"
        ELSE IF d.kind = "macvlan" /\ d.ParentIndex = 0 THEN "EINVAL"
        ELSE IF d.kind = "macvlan" /\ LinkByIndex(L, sock, d.ParentIndex) = {}
             THEN "ENODEV"
        ELSE IF d.kind = "veth" /\ InUse(L, pns, d.PeerName) THEN "EEXIST"
        ELSE IF InUse(L, tgt, d.Name) THEN "EEXIST"
        ELSE IF d.kind = "veth" /\ pns = tgt /\ d.PeerName = d.Name THEN "EEXIST"
        ELSE "ok"

\* the links after a successful RTM_NEWLINK: a VETH peer is registered
\* first, then the link itself
LinkAddLinks(L, nidx, nid, sock, d) ==
    LET tgt == TargetNs(sock, d)
        pns == PeerNs(sock, d)
        isveth == d.kind = "veth"
        pidx == nidx[pns]
        nidx1 == IF isveth THEN [nidx EXCEPT ![pns] = @ + 1] ELSE nidx
        peer == [id |-> nid + 1, ns |-> pns, idx |-> pidx, name |-> d.PeerName,
                 kind |-> "veth", parent |-> 0, peer |-> nid]
        dev == [id |-> nid, ns |-> tgt, idx |-> nidx1[tgt], name |-> d.Name,
                kind |-> d.kind,
                parent |-> IF d.kind = "macvlan" THEN LowerDev(L, sock, d) ELSE 0,
                peer |-> IF isveth THEN nid + 1 ELSE 0]
    IN  [links |-> L \cup {dev} \cup (IF isveth THEN {peer} ELSE {}),
         nextIdx |-> [nidx1 EXCEPT ![tgt] = @ + 1],
         nextId |-> IF isveth THEN nid + 2 ELSE nid + 1,
         created |-> nid]

\* netlink.Handle.LinkAdd ends with ensureIndex: the index it reports is the
\* one of the link of that name in the socket's namespace, or stays zero
ReportedIndex(L, sock, d) ==
    LET found == LinkByName(L, sock, d.Name)
    IN  IF d.Index # 0 THEN d.Index
        ELSE IF found = {} THEN 0
        ELSE (CHOOSE l \in found : TRUE).idx

\* RTM_DELLINK by index through a socket in namespace ns: the link goes, and
\* with it its VETH peer and the MACVLANs on top of either
Removed(L, ns, idx) ==
    LET base == LinkByIndex(L, ns, idx)
        pair == base \cup { l \in L : \E b \in base : b.peer = l.id }
    IN  pair \cup { l \in L : \E b \in pair : l.parent = b.id }

LinkDelError(L, ns, idx) ==
    IF LinkByIndex(L, ns, idx) = {} THEN "ENODEV" ELSE "ok"

LinkDel(L, ns, idx) == L \ Removed(L, ns, idx)


(***************************************************************************)
(* Netlink handles and namespace file descriptors.  closes counts the       *)
(* Close calls a handle or descriptor has seen.                             *)
(***************************************************************************)
\* handles and descriptors are numbered like file descriptors: the lowest
\* number that is free
NewId(S) == CHOOSE i \in 1..(Cardinality(DOMAIN S) + 1) :
                /\ i \notin DOMAIN S
                /\ \A j \in 1..(i - 1) : j \in DOMAIN S

Opened(S, rec) ==
    [i \in DOMAIN S \cup {NewId(S)} |-> IF i \in DOMAIN S THEN S[i] ELSE rec]

NewHandleAt(S, ns, role) == Opened(S, [ns |-> ns, role |-> role, closes |-> 0])

Close(S, h) == IF h = 0 THEN S ELSE [S EXCEPT ![h].closes = @ + 1]

\* what is left of the closed handles and descriptors of a call is dropped
\* when the next call begins, unless a registered handler holds it
Forget(S, held) == [i \in { j \in DOMAIN S : S[j].closes = 0 \/ j \in held } |-> S[i]]

\* requests that always go through a socket of the thread's namespace
SocketNsOfThread(S, h, tns) == tns

\* the namespace the requests of a handle go to: the zero-value handle opens
\* a socket per request in the namespace the thread is in at that time
SocketNs(S, h, tns) == IF h = 0 THEN tns ELSE S[h].ns

(***************************************************************************)
(* link.NewTransient, per calling task.                                     *)
(***************************************************************************)
NoMsg == [text |-> "", kind |-> "none"]

IdleCall ==
    [pc |-> "idle", tmpl |-> Plain(NoLink), prefix |-> NoName, cur |-> "none",
     link |-> NoLink, linkNamespace |-> NoNs,
     linknetnsh |-> 0, netnsh |-> 0, netnsfd |-> 0, destsess |-> 0,
     attempt |-> 0, adds |-> 0, gens |-> 0, peergens |-> 0, lastErr |-> "none",
     created |-> 0, firstId |-> 0, outcome |-> "none", msg |-> NoMsg, registered |-> FALSE,
     linkobj |-> "none"]

\* no call of link.RandomNifname
NoNifname == [pc |-> "none", prefix |-> NoName, name |-> NoName, failed |-> FALSE]

\* no call of veth.NewTransient
NoVethCall ==
    [pc |-> "none", seen |-> 0, cur |-> "none", veth |-> Plain(NoLink),
     dupond |-> NoLink, dupont |-> NoLink, dupontId |-> 0, outcome |-> "none",
     pair |-> <<0, 0>>, resides |-> [dupond |-> "none", dupont |-> "none"],
     inCur |-> [dupond |-> {}, dupont |-> {}]]

NifnameIdle == nifname = NoNifname

VethIdle == vethcall = [t \in Tasks |-> NoVethCall]

\* the caller has not closed the namespace descriptors it passes
RefsOpen == nsrefs = [n \in Namespaces |-> "open"]

HostMnt == "m0"

\* what the last provider operation of a task did: the namespace of its kind
\* and the pin count before (ns0, pins0) and after (ns1, pins1)
NoLast ==
    [op |-> "none", kind |-> "none", outcome |-> "none", how |-> "none",
     ns0 |-> "none", pins0 |-> 0, ns1 |-> "none", pins1 |-> 0, pinsAt |-> 0,
     fd |-> 0, target |-> 0, inFn |-> "none", closesAtSwitch |-> 0]

NoExec == [pc |-> "none", orig |-> 0, target |-> 0, ns0 |-> "none", pins0 |-> 0]

\* no provider operation yet
NoProv ==
    [failed |-> FALSE, restores |-> << >>, exec |-> NoExec, last |-> NoLast,
     mntRestored |-> FALSE]

ProvIdle ==
    /\ threadMnt = [t \in Tasks |-> HostMnt]
    /\ made = {}
    /\ prov = [t \in Tasks |-> NoProv]

Unpinned == pins = [t \in Tasks |-> 0]

NoHelpers == helpers = << >>

\* no call of netns.NsID yet, and no namespace has an id
NoNsid ==
    [ids |-> [v \in Namespaces |-> [n \in Namespaces |-> -1]], cur |-> HostNs,
     pc |-> "idle", ref |-> "fd", target |-> HostNs, had |-> -1, attempt |-> 0,
     sets |-> 0, pathfd |-> "none", failed |-> FALSE, calls |-> << >>]

\* no call of link.EnsureUp yet
NoUp ==
    [pc |-> "idle", within |-> << >>, atmost |-> 0, elapsed |-> 0, polls |-> 0,
     good |-> 0, missing |-> 0, exists |-> TRUE, oper |-> "down", admin |-> FALSE,
     outcome |-> "none"]

\* no call of netdevsim.NewTransient as a whole yet
NoNt ==
    [pc |-> "idle", task |-> "none", Ports |-> 0, NetnsFd |-> -1, ns0 |-> "none",
     pins0 |-> 0, inNs |-> "none", id |-> 0, removeNetdevsim |-> FALSE,
     deletes |-> 0, nifnames |-> << >>, port |-> 0, attempt |-> 0, tries |-> 0,
     errs |-> {}, retriedAfter |-> {}, failedAfter |-> "none", failedAt |-> 0,
     links |-> << >>, ret |-> << >>, outcome |-> "none", stage |-> "none",
     call |-> 0]

\* no call of Link or Unlink yet
NoLk ==
    [pc |-> "idle", op |-> "none", task |-> "none", args |-> << >>, sides |-> << >>,
     writes |-> 0, written |-> << >>, outcome |-> "none", stage |-> "none",
     calls |-> 0]

\* no call of package netdevsim yet, and no device
NoNds ==
    [devs |-> {}, extra |-> {}, pc |-> "idle", phase |-> "body", calls |-> 0,
     failed |-> FALSE, hasID |-> FALSE, ID |-> 0, id |-> 0, attempt |-> 0,
     creates |-> 0, scans |-> 0, takenAt |-> -1, created |-> FALSE,
     removeNetdevsim |-> FALSE, inUse |-> FALSE,
     outcome |-> "none", stage |-> "none", msg |-> -1, deletes |-> 0,
     registered |-> 0, cleanups |-> << >>, torndown |-> << >>,
     idcalls |-> << >>, creations |-> 0, ports |-> << >>,
     nifcall |-> [called |-> FALSE, id |-> 0,
                  ret |-> [nifnames |-> << >>, err |-> FALSE]],
     nt |-> NoNt, simports |-> << >>, lk |-> NoLk, peers |-> {}]

NsidIdle == nsid = NoNsid

UpIdle == up = NoUp

NdsIdle == nds = NoNds

RestIdle == NoHelpers /\ NsidIdle /\ UpIdle /\ NdsIdle

OthersIdle == NifnameIdle /\ VethIdle /\ RefsOpen /\ ProvIdle /\ Unpinned /\ RestIdle

LinkInit ==
    /\ links = { Loopback("n0", 1), Loopback("n1", 2), Loopback("n2", 3) }
    /\ nextIdx = [n \in Namespaces |-> 2]
    /\ nextId = 4
    /\ threadNs = [t \in Tasks |-> HostNs]
    /\ sessions = << >>
    /\ nsfds = << >>
    /\ call = [t \in Tasks |-> IdleCall]
    /\ cleanups = << >>
    /\ torndown = << >>
    /\ phase = "body"
    /\ ncalls = 0

Init == LinkInit /\ OthersIdle

\* fail(...) and a failed Expect(...) panic: the deferred functions of
\* NewTransient run (lines 118, 136, 146-152) and the call ends
Fail(c, text) ==
    [c EXCEPT !.pc = "done", !.outcome = "failed",
              !.msg = [text |-> text, kind |-> c.link.kind]]

\* a deferred function that closes the handle whether or not it was captured
DeferredNetnshAlways(S, c) == Close(S, c.destsess)

DeferredNetnsh(S, c) == IF c.netnsh # 0 THEN Close(S, c.netnsh) ELSE S

DeferredSessions(S, c) == Close(DeferredNetnsh(S, c), c.linknetnsh)

DeferredFds(F, c) == Close(F, c.netnsfd)

\* line 97: reflect.New makes a zero value of the type of the unwrapped link
ZeroOf(l) == LinkDesc(l.kind, NoNs, 0, NoNs)

\* a copy that leaves the namespace reference out
DeepCopyWithoutNamespace(l) ==
    [ZeroOf(l) EXCEPT !.Name = l.Name, !.Index = l.Index,
                      !.ParentIndex = l.ParentIndex, !.PeerName = l.PeerName,
                      !.PeerNamespace = l.PeerNamespace]

\* lines 97-99: the fields of the description are copied into the new value
DeepCopy(l) ==
    [ZeroOf(l) EXCEPT !.Name = l.Name, !.Index = l.Index, !.Namespace = l.Namespace,
                      !.ParentIndex = l.ParentIndex, !.PeerName = l.PeerName,
                      !.PeerNamespace = l.PeerNamespace]

\* a function that goes on with the description it was passed
SameObject(l) == "arg"

\* line 100: from here on link points to the new value, not to the caller's
NewObject(l) == "new"

\* lines 157, 162, 165, 182: what is written through link reaches the
\* caller's description only when link points to it
ThroughLink(c) ==
    IF c.linkobj = "arg" THEN [c EXCEPT !.tmpl.Link = c.link] ELSE c

\* lines 86-100: the destination reference is checked, the link is unwrapped
\* and deep-copied
Validated(t, arg, prefix) ==
    LET u == Unwrap(arg)
    IN  [IdleCall EXCEPT !.tmpl = arg, !.prefix = prefix, !.cur = threadNs[t],
                         !.firstId = nextId,
                         !.link = DeepCopy(u.l), !.linkobj = NewObject(u.l),
                         !.linkNamespace = u.namespace]

\* a check that lets every destination reference through
DestinationUnchecked(arg) == TRUE

DestinationOk(arg) == arg.Link.Namespace.type \in {"nil", "NsFd"}

LinkNamespaceOk(c) == c.linkNamespace.type \in {"nil", "NsFd"}

\* lines 107-119: the handle creation requests are sent through
WithLinknetnsh(S, c) ==
    IF c.linkNamespace.type = "nil"
    THEN [S |-> S, c |-> [c EXCEPT !.linknetnsh = 0]]
    ELSE [S |-> NewHandleAt(S, c.linkNamespace.ns, "link"),
          c |-> [c EXCEPT !.linknetnsh = NewId(S)]]

\* lines 127-144: the namespace the handle kept for the index lookup and
\* the teardown is connected to
NetnshNs(c) ==
    IF c.link.Namespace.type = "nil" THEN c.cur ELSE c.link.Namespace.ns

NewTransientBegin(t, arg, prefix) ==
    /\ phase = "body"
    /\ ncalls < MaxCalls
    /\ call[t].pc \in {"idle", "done"}
    /\ ncalls' = ncalls + 1
    /\ UNCHANGED <<links, nextIdx, nextId, threadNs, cleanups, torndown, phase, others>>
    /\ LET c0 == Validated(t, arg, prefix)
           S0 == Forget(sessions, { cleanups[i].netnsh : i \in 1..Len(cleanups) })
           F0 == Forget(nsfds, {})
       IN  IF ~DestinationOk(arg)
           THEN /\ call' = [call EXCEPT ![t] =
                      Fail(c0, "link.Attrs().Namespace reference must be nil or a netlink.NsFd")]
                /\ sessions' = S0
                /\ nsfds' = F0
           ELSE IF ~LinkNamespaceOk(c0)
           THEN /\ call' = [call EXCEPT ![t] =
                      Fail(c0, "wrapped namespace.LinkNamespace must be nil or a netlink.NsFd")]
                /\ sessions' = S0
                /\ nsfds' = F0
           ELSE IF c0.linkNamespace = NsFd("bad")
           THEN /\ call' = [call EXCEPT ![t] =
                      Fail(c0, "cannot create NETLINK handle for link network namespace")]
                /\ sessions' = S0
                /\ nsfds' = F0
           ELSE LET w == WithLinknetnsh(S0, c0)
                IN  IF w.c.link.Namespace.type = "nil"
                    THEN LET F1 == Opened(F0, [ns |-> threadNs[t], closes |-> 0])
                             S2 == NewHandleAt(w.S, NetnshNs(w.c), "dest")
                         IN  /\ nsfds' = F1
                             /\ sessions' = S2
                             /\ call' = [call EXCEPT ![t] =
                                   [w.c EXCEPT !.pc = "gen", !.attempt = 1,
                                               !.netnsfd = NewId(F0),
                                               !.netnsh = NewId(w.S),
                                               !.destsess = NewId(w.S)]]
                    ELSE IF w.c.link.Namespace = NsFd("bad")
                    THEN /\ sessions' = DeferredSessions(w.S, w.c)
                         /\ nsfds' = F0
                         /\ call' = [call EXCEPT ![t] =
                               Fail(w.c, "cannot create NETLINK handle")]
                    ELSE LET S2 == NewHandleAt(w.S, NetnshNs(w.c), "dest")
                         IN  /\ nsfds' = F0
                             /\ sessions' = S2
                             /\ call' = [call EXCEPT ![t] =
                                   [w.c EXCEPT !.pc = "gen", !.attempt = 1,
                                               !.netnsh = NewId(w.S),
                                               !.destsess = NewId(w.S)]]

\* a classification that takes every error for a name collision
IsAnyError(err) == err # "ok"

\* line 169: only a name that already exists is worth another attempt
IsExist(err) == err = "EEXIST"

\* a loop that runs for one attempt more
AttemptsLeftOneMore(c) == c.attempt <= MaxAttempts + 1

\* line 154: the loop condition
AttemptsLeft(c) == c.attempt <= MaxAttempts

\* lines 154-163: the loop condition, then a new random name for the link
\* and, for a VETH, another one for its peer
NewTransientName(t, draws, peerdraws) ==
    /\ call[t].pc = "gen"
    /\ UNCHANGED <<links, nextIdx, nextId, threadNs, cleanups, torndown, phase, ncalls, others>>
    /\ LET c == call[t]
       IN  IF ~AttemptsLeft(c)
           THEN /\ call' = [call EXCEPT ![t] =
                      Fail(c, "too many failed attempts to create a transient network interface")]
                /\ sessions' = DeferredSessions(sessions, c)
                /\ nsfds' = DeferredFds(nsfds, c)
           ELSE IF PrefixTooLong(c.prefix)
           THEN /\ call' = [call EXCEPT ![t] =
                      Fail(c, "cannot create random network interface name")]
                /\ sessions' = DeferredSessions(sessions, c)
                /\ nsfds' = DeferredFds(nsfds, c)
           ELSE /\ call' = [call EXCEPT ![t] = ThroughLink(
                      [c EXCEPT !.pc = "add",
                                !.gens = @ + 1,
                                !.peergens = IF c.link.kind = "veth" THEN @ + 1 ELSE @,
                                !.link.Name = base62Nifname(c.prefix, draws),
                                !.link.PeerName =
                                    IF c.link.kind = "veth"
                                    THEN base62Nifname(c.prefix, peerdraws)
                                    ELSE @])]
                /\ UNCHANGED <<sessions, nsfds>>

\* lines 165-173: the creation request goes through the link namespace handle
NewTransientLinkAdd(t) ==
    /\ call[t].pc = "add"
    /\ UNCHANGED <<threadNs, cleanups, torndown, phase, ncalls, others>>
    /\ LET c == call[t]
           sock == SocketNs(sessions, c.linknetnsh, threadNs[t])
           err == LinkAddError(links, sock, c.link)
           r == LinkAddLinks(links, nextIdx, nextId, sock, c.link)
       IN  IF err = "ok"
           THEN /\ links' = r.links
                /\ nextIdx' = r.nextIdx
                /\ nextId' = r.nextId
                /\ call' = [call EXCEPT ![t] = ThroughLink(
                      [c EXCEPT !.pc = "lookup", !.adds = @ + 1, !.lastErr = err,
                                !.created = r.created,
                                !.link.Index = ReportedIndex(r.links, sock, c.link)])]
                /\ UNCHANGED <<sessions, nsfds>>
           ELSE IF IsExist(err)
           THEN /\ call' = [call EXCEPT ![t] =
                      [c EXCEPT !.pc = "gen", !.adds = @ + 1, !.lastErr = err,
                                !.attempt = @ + 1]]
                /\ UNCHANGED <<links, nextIdx, nextId, sessions, nsfds>>
           ELSE /\ call' = [call EXCEPT ![t] =
                      Fail([c EXCEPT !.adds = @ + 1, !.lastErr = err],
                           "cannot create a transient network interface")]
                /\ sessions' = DeferredSessions(sessions, c)
                /\ nsfds' = DeferredFds(nsfds, c)
                /\ UNCHANGED <<links, nextIdx, nextId>>

\* a lookup through a handle for the namespace the calling thread is in
TargetLinkInCurrent(L, S, c) == LinkByName(L, c.cur, c.link.Name)

\* lines 179-182: the index is taken from a lookup by name through netnsh
TargetLink(L, S, c) == LinkByName(L, S[c.netnsh].ns, c.link.Name)

\* a description that keeps the index netlink.Handle.LinkAdd reported
WithReportedIndex(link, found) == link

WithIndex(link, found) == [link EXCEPT !.Index = (CHOOSE l \in found : TRUE).idx]

\* the link of the given identity
LinkOfId(L, id) == CHOOSE l \in L : l.id = id

\* the namespace a link of the given identity is in
NsOfLink(L, id) == (CHOOSE l \in L : l.id = id).ns

\* lines 188-194: the handler captures the handle and the link description
Handler(c, link, L) ==
    [netnsh |-> c.netnsh, link |-> link, created |-> c.created,
     resided |-> NsOfLink(L, c.created), err |-> "none", target |-> {},
     thread |-> "none", ref |-> "none", used |-> -1]

\* lines 179-200: index lookup, DeferCleanup, return
NewTransientRegister(t) ==
    /\ call[t].pc = "lookup"
    /\ UNCHANGED <<links, nextIdx, nextId, threadNs, torndown, phase, ncalls, others>>
    /\ LET c == call[t]
           found == TargetLink(links, sessions, c)
       IN  IF found = {}
           THEN /\ call' = [call EXCEPT ![t] =
                      Fail(c, "cannot determine network interface index after creation")]
                /\ sessions' = DeferredSessions(sessions, c)
                /\ nsfds' = DeferredFds(nsfds, c)
                /\ UNCHANGED cleanups
           ELSE LET link == WithIndex(c.link, found)
                    done == ThroughLink([c EXCEPT !.pc = "done", !.outcome = "ok",
                                                   !.link = link, !.netnsh = 0,
                                                   !.registered = TRUE])
                IN  /\ cleanups' = Append(cleanups, Handler(c, link, links))
                    /\ call' = [call EXCEPT ![t] = done]
                    /\ sessions' = DeferredSessions(sessions, done)
                    /\ nsfds' = DeferredFds(nsfds, done)

(***************************************************************************)
(* The test node: its body ends, then Ginkgo runs the registered handlers,  *)
(* last registered first.                                                   *)
(***************************************************************************)
EndBody ==
    /\ phase = "body"
    /\ \A t \in Tasks : call[t].pc \in {"idle", "done"}
    /\ phase' = "cleanup"
    /\ UNCHANGED <<links, nextIdx, nextId, threadNs, sessions, nsfds, call,
                   cleanups, torndown, ncalls, others>>

\* the task whose thread runs the handlers
CleanupTask == CHOOSE t \in Tasks : TRUE

\* lines 189-190: the deletion request goes through the captured handle
TeardownNs(S, e, tns) == S[e.netnsh].ns

\* a handler that closes the handle after the Expect, without defer
ClosedAfterExpect(S, e, err) == IF err = "ok" THEN Close(S, e.netnsh) ELSE S

\* lines 189-191: the deferred function closes the handle when the handler
\* ends, also when the Expect of line 193 failed
ClosedByDefer(S, e, err) == Close(S, e.netnsh)

\* lines 188-194: the handler deletes the link through the captured handle
\* and closes the handle, also when the deletion failed; target, thread and
\* ref record what the request hit, where the thread was, and the state of
\* the caller's descriptor of the namespace of the handle; used records how
\* often the handle had been closed when the request was sent
RunCleanup ==
    /\ phase = "cleanup"
    /\ cleanups # << >>
    /\ LET e == cleanups[Len(cleanups)]
           ns == TeardownNs(sessions, e, threadNs[CleanupTask])
       IN  /\ links' = LinkDel(links, ns, e.link.Index)
           /\ sessions' = ClosedByDefer(sessions, e, LinkDelError(links, ns, e.link.Index))
           /\ torndown' = Append(torndown,
                               [e EXCEPT !.err = LinkDelError(links, ns, e.link.Index),
                                         !.used = sessions[e.netnsh].closes,
                                         !.target = { l.id : l \in LinkByIndex(links, ns, e.link.Index) },
                                         !.thread = threadNs[CleanupTask],
                                         !.ref = nsrefs[sessions[e.netnsh].ns]])
           /\ cleanups' = SubSeq(cleanups, 1, Len(cleanups) - 1)
    /\ UNCHANGED <<nextIdx, nextId, threadNs, nsfds, call, phase, ncalls, others>>

Next ==
    \/ \E t \in Tasks, r \in Requests :
          NewTransientBegin(t, r.arg, r.prefix)
    \/ \E t \in Tasks, draws \in RandomDraws, peerdraws \in RandomDraws :
          NewTransientName(t, draws, peerdraws)
    \/ \E t \in Tasks : NewTransientLinkAdd(t)
    \/ \E t \in Tasks : NewTransientRegister(t)
    \/ EndBody
    \/ RunCleanup

Spec == Init /\ [][Next]_vars

\* a call that has started keeps running: its requests to the kernel return
NewTransientStep(t) ==
    \/ \E draws \in RandomDraws, peerdraws \in RandomDraws :
          NewTransientName(t, draws, peerdraws)
    \/ NewTransientLinkAdd(t)
    \/ NewTransientRegister(t)

FairSpec == Spec /\ \A t \in Tasks : WF_vars(NewTransientStep(t))

(***************************************************************************)
(* The teardown in its surroundings: handlers registered after the link's   *)
(* run before it and may move the thread to another network namespace or    *)
(* close the descriptor the caller passed as the destination.               *)
(***************************************************************************)
\* a handler that ran before has switched the thread (unix.Setns)
SwitchThread(t, n) ==
    /\ phase = "cleanup"
    /\ threadNs[t] # n
    /\ threadNs' = [threadNs EXCEPT ![t] = n]
    /\ UNCHANGED <<links, nextIdx, nextId, sessions, nsfds, call, cleanups,
                   torndown, phase, ncalls, others>>

\* a handler that ran before has closed the caller's descriptor of n
CloseNsRef(n) ==
    /\ phase = "cleanup"
    /\ n # HostNs
    /\ nsrefs[n] = "open"
    /\ nsrefs' = [nsrefs EXCEPT ![n] = "closed"]
    /\ UNCHANGED <<linkvars, nifname, vethcall, provvars, restvars>>

TeardownNext ==
    \/ \E t \in Tasks, r \in Requests :
          NewTransientBegin(t, r.arg, r.prefix)
    \/ \E t \in Tasks, draws \in RandomDraws, peerdraws \in RandomDraws :
          NewTransientName(t, draws, peerdraws)
    \/ \E t \in Tasks : NewTransientLinkAdd(t)
    \/ \E t \in Tasks : NewTransientRegister(t)
    \/ EndBody
    \/ RunCleanup
    \/ \E t \in Tasks, n \in Namespaces : SwitchThread(t, n)
    \/ \E n \in Namespaces : CloseNsRef(n)

TeardownSpec == Init /\ [][TeardownNext]_vars

(***************************************************************************)
(* link.RandomNifname.  A test node either asks for one random name or      *)
(* makes links with a prefix that fits or with one that is too long.        *)
(***************************************************************************)
PrefixChars == {"v", "-"}

Prefixes ==
    {ShortPrefix, LongPrefix}
    \cup { [i \in 1..n |-> c] : n \in 0..MaxPrefixLen, c \in PrefixChars }

\* the draws of one name: two numbers in turn
NifDraws ==
    { [i \in 1..maxNifnameLen |-> IF i % 2 = 0 THEN a ELSE b] :
        a \in RandInts \cup {10, 35}, b \in RandInts \cup {10, 35} }

NifRequests ==
    { [arg |-> Plain(LinkDesc("dummy", NoNs, 0, NoNs)), prefix |-> p] :
        p \in {ShortPrefix, LongPrefix} }

NifInit ==
    /\ LinkInit
    /\ VethIdle
    /\ RefsOpen
    /\ ProvIdle
    /\ Unpinned
    /\ RestIdle
    /\ nifname \in {NoNifname} \cup { [NoNifname EXCEPT !.pc = "called", !.prefix = p] :
                                         p \in Prefixes }

\* lines 253-256 and 271-283: the name, or the failure of the test
RandomNifname(draws) ==
    /\ nifname.pc = "called"
    /\ nifname' =
          IF PrefixTooLong(nifname.prefix)
          THEN [nifname EXCEPT !.pc = "done", !.failed = TRUE]
          ELSE [nifname EXCEPT !.pc = "done",
                               !.name = base62Nifname(nifname.prefix, draws)]
    /\ UNCHANGED <<linkvars, vethcall, nsrefs, provvars, restvars>>

NifNewTransientBegin(t, r) ==
    /\ nifname.pc = "none"
    /\ NewTransientBegin(t, r.arg, r.prefix)

NifNext ==
    \/ \E draws \in NifDraws : RandomNifname(draws)
    \/ \E t \in Tasks, r \in NifRequests : NifNewTransientBegin(t, r)
    \/ \E t \in Tasks, draws \in RandomDraws, peerdraws \in RandomDraws :
          NewTransientName(t, draws, peerdraws)
    \/ \E t \in Tasks : NewTransientLinkAdd(t)
    \/ \E t \in Tasks : NewTransientRegister(t)
    \/ EndBody
    \/ RunCleanup

NifSpec == NifInit /\ [][NifNext]_vars


(***************************************************************************)
(* veth.NewTransient: the options are applied to a wrapped VETH             *)
(* description, link.NewTransient creates the pair, then the peer end is    *)
(* looked up by the name link.NewTransient gave it.                         *)
(***************************************************************************)
VethPrefix == <<"v", "e", "t", "h", "-">>

\* the options of a call: InNamespace and WithPeerNamespace, each given or not
VethOptions ==
    { [dest |-> d, peer |-> p] :
        d \in {NoNs, NsFd("n0"), NsFd("n1")},
        p \in {NoNs, NsFd("n0"), NsFd("n1"), NsFd("n2")} }

\* lines 108-115: a wrapped VETH description without a link namespace, with
\* the options applied
VethTemplate(o) == Wrapped(LinkDesc("veth", o.dest, 0, o.peer), NoNs)

\* line 116 has returned and lines 122-129 have not run yet
VethReturning(t) ==
    /\ call[t].pc = "done"
    /\ call[t].outcome = "ok"
    /\ vethcall[t].seen < ncalls

\* a lookup that always goes through the namespace the thread is in
PeerLookupInCurrent(v, cur) == cur

\* lines 122-128: through a handle for the peer namespace when the
\* description names one, else through the namespace the thread is in
PeerLookupNs(v, cur) ==
    IF v.PeerNamespace.type = "NsFd" THEN v.PeerNamespace.ns ELSE cur

\* what netlink's LinkByName returns for a link it found
Described(l) ==
    [LinkDesc(l.kind, NoNs, 0, NoNs) EXCEPT !.Name = l.name, !.Index = l.idx]

\* lines 108-116, up to the creation of the handles in link.NewTransient
VethNewTransientBegin(t, o) ==
    /\ ~VethReturning(t)
    /\ NewTransientBegin(t, VethTemplate(o), VethPrefix)

\* lines 122-129: the peer lookup and the return of both descriptions; pair,
\* resides and inCur record the created ends, where they are, and what a
\* lookup of the returned names finds in the namespace of the caller
VethPeerLookup(t) ==
    /\ VethReturning(t)
    /\ phase = "body"
    /\ LET c == call[t]
           v == Unwrap(c.tmpl).l
           ns == PeerLookupNs(v, threadNs[t])
           found == LinkByName(links, ns, c.link.PeerName)
           first == LinkOfId(links, c.created)
           ret == [NoVethCall EXCEPT !.pc = "done", !.seen = ncalls,
                                     !.cur = threadNs[t], !.veth = c.tmpl,
                                     !.dupond = c.link,
                                     !.pair = <<first.id, first.peer>>]
       IN  /\ sessions' =
                 IF v.PeerNamespace.type = "NsFd"
                 THEN Close(NewHandleAt(sessions, ns, "peer"), NewId(sessions))
                 ELSE sessions
           /\ vethcall' = [vethcall EXCEPT ![t] =
                 IF found = {}
                 THEN [ret EXCEPT !.outcome = "failed"]
                 ELSE LET l == CHOOSE x \in found : TRUE
                      IN  [ret EXCEPT
                             !.outcome = "ok",
                             !.dupont = Described(l),
                             !.dupontId = l.id,
                             !.resides = [dupond |-> first.ns, dupont |-> l.ns],
                             !.inCur =
                                [dupond |-> { x.id : x \in
                                     LinkByName(links, threadNs[t], c.link.Name) },
                                 dupont |-> { x.id : x \in
                                     LinkByName(links, threadNs[t], l.name) }]]]
    /\ UNCHANGED <<links, nextIdx, nextId, threadNs, nsfds, call, cleanups,
                   torndown, phase, ncalls, nifname, nsrefs, provvars, restvars>>

\* the body of the test node ends after the calls it made have returned
VethEndBody ==
    /\ \A t \in Tasks : ~VethReturning(t)
    /\ EndBody

VethNext ==
    \/ \E t \in Tasks, o \in VethOptions : VethNewTransientBegin(t, o)
    \/ \E t \in Tasks, draws \in RandomDraws, peerdraws \in RandomDraws :
          NewTransientName(t, draws, peerdraws)
    \/ \E t \in Tasks : NewTransientLinkAdd(t)
    \/ \E t \in Tasks : NewTransientRegister(t)
    \/ \E t \in Tasks : VethPeerLookup(t)
    \/ VethEndBody
    \/ RunCleanup

VethSpec == Init /\ [][VethNext]_vars


(***************************************************************************)
(* The namespace providers of packages netns and mntns.  An operation works *)
(* on the state of the calling task's thread (its network and mount         *)
(* namespace and its pin count), on the descriptor table and on Ginkgo's    *)
(* handlers; every system call of an operation can fail.                    *)
(***************************************************************************)
NsKinds == {"net", "mnt"}

\* the namespaces unshare makes, in the order it makes them
NsPool(kind) ==
    IF kind = "net" THEN <<"n3", "n4", "n5", "n6">> ELSE <<"m1", "m2", "m3", "m4">>

NsMade(M, kind) == { i \in 1..Len(NsPool(kind)) : NsPool(kind)[i] \in M }

Fresh(M, kind) == NsPool(kind)[Cardinality(NsMade(M, kind)) + 1]

ProvState(t) ==
    [net |-> threadNs[t], mnt |-> threadMnt[t], pins |-> pins[t], fds |-> nsfds,
     made |-> made, cleanups |-> cleanups, p |-> prov[t]]

\* the state an operation of task t ends in becomes the state of the model
Commit(t, s) ==
    /\ threadNs' = [threadNs EXCEPT ![t] = s.net]
    /\ threadMnt' = [threadMnt EXCEPT ![t] = s.mnt]
    /\ pins' = [pins EXCEPT ![t] = s.pins]
    /\ nsfds' = s.fds
    /\ made' = s.made
    /\ cleanups' = s.cleanups
    /\ prov' = [prov EXCEPT ![t] = s.p]
    /\ UNCHANGED <<links, nextIdx, nextId, sessions, call, torndown, phase,
                   nifname, vethcall, nsrefs, restvars>>

LockOSThread(s) == [s EXCEPT !.pins = @ + 1]

UnlockOSThread(s) == [s EXCEPT !.pins = IF @ > 0 THEN @ - 1 ELSE 0]

\* unix.Open of the thread's namespace in procfs; the descriptor is NewId
OpenNs(s, kind) == [s EXCEPT !.fds = Opened(@, [ns |-> s[kind], closes |-> 0])]

CloseFd(s, fd) == [s EXCEPT !.fds = Close(@, fd)]

\* unix.Unshare: the thread is in a namespace that did not exist before
Unshare(s, kind) ==
    [s EXCEPT ![kind] = Fresh(s.made, kind), !.made = @ \cup {Fresh(s.made, kind)}]

\* a switch that leaves the thread where it is
SetnsStays(s, kind, fd) == s

\* unix.Setns: the thread is in the namespace the descriptor references
Setns(s, kind, fd) == [s EXCEPT ![kind] = s.fds[fd].ns]

\* unix.Setns fails on what is not an open descriptor, and may fail otherwise
SetnsFails(s, fd, fail) ==
    \/ fail
    \/ fd \notin DOMAIN s.fds
    \/ s.fds[fd].closes > 0

\* the record of an operation that began in s0 and ended in s1
Last(op, kind, outcome, s0, s1, fd) ==
    [NoLast EXCEPT !.op = op, !.kind = kind, !.outcome = outcome,
                   !.ns0 = s0[kind], !.pins0 = s0.pins,
                   !.ns1 = s1[kind], !.pins1 = s1.pins, !.pinsAt = s0.pins,
                   !.fd = fd]

\* a failed Expect panics: the operation ends and the test node unwinds
FailedOp(op, kind, s0, s1, fd) ==
    [s1 EXCEPT !.p.failed = TRUE, !.p.last = Last(op, kind, "failed", s0, s1, fd)]

\* netns.go 71-73: the handler closes the descriptor that was returned
CloseHandler(fd) == [fd |-> fd, done |-> 0, nlh |-> 0]

\* netns.go 59-76: netns.NewTransient
NetnsNewTransient(s, fail) ==
    LET s1 == LockOSThread(s)
        orig == NewId(s1.fds)
        s2 == OpenNs(s1, "net")
        s3 == Unshare(s2, "net")
        new == NewId(s3.fds)
        s4 == OpenNs(s3, "net")
        s5 == Setns(s4, "net", orig)
        s6 == [s5 EXCEPT !.cleanups = Append(@, CloseHandler(new))]
        s7 == CloseFd(UnlockOSThread(s6), orig)
    IN  IF fail = "open" THEN FailedOp("NewTransient", "net", s, s1, 0)
        ELSE IF fail = "unshare"
        THEN FailedOp("NewTransient", "net", s, CloseFd(s2, orig), 0)
        ELSE IF fail = "opennew"
        THEN FailedOp("NewTransient", "net", s, CloseFd(s3, orig), 0)
        ELSE IF SetnsFails(s4, orig, fail = "setns")
        THEN FailedOp("NewTransient", "net", s, CloseFd(s4, orig), new)
        ELSE [s7 EXCEPT !.p.last = Last("NewTransient", "net", "ok", s, s7, new)]

\* what the restore function of netns.EnterTransient does last
NetRestoreKeepsPin(s) == s

\* netns.go 50: runtime.UnlockOSThread
NetRestoreUnpin(s) == UnlockOSThread(s)

\* a restore function that unlocks the thread
MntRestoreUnpins(s) == UnlockOSThread(s)

\* part_012 82: "do NOT unlock the OS-level thread"
MntRestoreUnpin(s) == s

\* netns.go 38-44 and part_012 61-75: EnterTransient, which hands out the
\* restore function of lines 45-51 and 77-83
EnterTransient(s, kind, fail) ==
    LET s1 == LockOSThread(s)
        fd == NewId(s1.fds)
        s2 == OpenNs(s1, kind)
        s3 == Unshare(s2, kind)
        r == [kind |-> kind, fd |-> fd, orig |-> s[kind], pins0 |-> s.pins,
              entered |-> s3[kind]]
        s4 == [s3 EXCEPT !.p.restores = Append(@, r)]
    IN  IF fail = "open" THEN FailedOp("EnterTransient", kind, s, s1, 0)
        ELSE IF fail = "unshare" THEN FailedOp("EnterTransient", kind, s, s2, fd)
        ELSE IF kind = "mnt" /\ fail = "mount"
        THEN FailedOp("EnterTransient", kind, s, s3, fd)
        ELSE [s4 EXCEPT !.p.last = Last("EnterTransient", kind, "ok", s, s4, fd)]

\* netns.go 45-51 and part_012 77-83: the restore function handed out last
Restore(s, fail) ==
    LET r == s.p.restores[Len(s.p.restores)]
        s0 == [s EXCEPT !.p.restores = SubSeq(@, 1, Len(@) - 1)]
        s1 == CloseFd(Setns(s0, r.kind, r.fd), r.fd)
        s2 == IF r.kind = "net" THEN NetRestoreUnpin(s1) ELSE MntRestoreUnpin(s1)
        rec(outcome, s9) ==
            [Last("restore", r.kind, outcome, s, s9, r.fd) EXCEPT
                !.ns0 = r.orig, !.pins0 = r.pins0]
    IN  IF SetnsFails(s0, r.fd, fail)
        THEN [s0 EXCEPT !.p.failed = TRUE, !.p.last = rec("panicked", s0)]
        ELSE [s2 EXCEPT !.p.last = rec("ok", s2),
                        !.p.mntRestored = @ \/ r.kind = "mnt"]

\* netns.go 80-91: Execute up to the call of fn
ExecuteBegin(s, netnsfd, fail) ==
    LET s1 == LockOSThread(s)
        orig == NewId(s1.fds)
        s2 == OpenNs(s1, "net")
        s3 == Setns(s2, "net", netnsfd)
        e == [pc |-> "fn", orig |-> orig, target |-> netnsfd, ns0 |-> s.net,
              pins0 |-> s.pins]
    IN  IF fail = "open" THEN FailedOp("Execute", "net", s, s1, 0)
        ELSE IF SetnsFails(s2, netnsfd, fail = "setns")
        THEN FailedOp("Execute", "net", s, CloseFd(s2, orig), orig)
        ELSE [s3 EXCEPT !.p.exec = e,
                        !.p.last = [Last("Execute", "net", "fn", s, s3, orig) EXCEPT
                                       !.target = netnsfd]]

\* deferred functions that run in the order of their defer statements
DeferredInOrder == <<"close", "setns">>

\* netns.go 90-95: the deferred functions run last in, first out
DeferredLifo == <<"setns", "close">>

\* a failed switch back that unlocks the thread all the same
SwitchBackFailedUnlocks(s) == UnlockOSThread(s)

\* netns.go 93-94: the failed Expect panics before runtime.UnlockOSThread
SwitchBackFailed(s) == s

\* netns.go 92-97: fn ends by returning or by panicking, then the deferred
\* functions run: the switch back with the unlock, and the close
ExecuteEnd(s, how, fail) ==
    LET e == s.p.exec
        s0 == [s EXCEPT !.p.exec = NoExec]
        sA == IF DeferredLifo[1] = "close" THEN CloseFd(s0, e.orig) ELSE s0
        fails == SetnsFails(sA, e.orig, fail)
        sB == IF fails THEN SwitchBackFailed(sA)
              ELSE UnlockOSThread(Setns(sA, "net", e.orig))
        sC == IF DeferredLifo[1] = "close" THEN sB ELSE CloseFd(sB, e.orig)
        outcome == IF fails THEN "failed" ELSE IF how = "panic" THEN "panicked" ELSE "ok"
        rec == [Last("Execute", "net", outcome, s, sC, e.orig) EXCEPT
                   !.ns0 = e.ns0, !.pins0 = e.pins0, !.how = how, !.inFn = s.net,
                   !.target = e.target,
                   !.closesAtSwitch = sA.fds[e.orig].closes]
    IN  [sC EXCEPT !.p.last = rec, !.p.failed = @ \/ outcome # "ok"]

\* the test node goes on after an operation unless an operation failed
CanCall(t) ==
    /\ phase = "body"
    /\ ncalls < MaxCalls
    /\ ~prov[t].failed
    /\ prov[t].exec.pc = "none"

NewTransientFailures == {"none", "open", "unshare", "opennew", "setns"}

EnterTransientFailures == {"none", "open", "unshare", "mount"}

ExecuteFailures == {"none", "open", "setns"}

IsMntNs(n) == n = HostMnt \/ \E i \in 1..Len(NsPool("mnt")) : NsPool("mnt")[i] = n

\* the descriptors a test node passes to Execute: those NewTransient
\* returned, and 0, which references no namespace
ExecuteFds ==
    {0} \cup { f \in { cleanups[i].fd : i \in 1..Len(cleanups) } \ {0} :
                 ~IsMntNs(nsfds[f].ns) }

\* an operation opens two descriptors at most
FdNumbers == 0..(2 * MaxCalls)

CallNetnsNewTransient(t, fail) ==
    /\ CanCall(t)
    /\ ncalls' = ncalls + 1
    /\ Commit(t, NetnsNewTransient(ProvState(t), fail))

CallEnterTransient(t, kind, fail) ==
    /\ CanCall(t)
    /\ kind = "net" => fail # "mount"
    /\ ncalls' = ncalls + 1
    /\ Commit(t, EnterTransient(ProvState(t), kind, fail))

\* the restore function is deferred: it runs when the function that called
\* EnterTransient returns, or unwinds after a failure
CallRestore(t, fail) ==
    /\ phase = "body"
    /\ prov[t].restores # << >>
    /\ prov[t].exec.pc = "none"
    /\ UNCHANGED ncalls
    /\ Commit(t, Restore(ProvState(t), fail))

CallExecute(t, netnsfd, fail) ==
    /\ CanCall(t)
    /\ netnsfd \in ExecuteFds
    /\ ncalls' = ncalls + 1
    /\ Commit(t, ExecuteBegin(ProvState(t), netnsfd, fail))

FnEnds(t, how, fail) ==
    /\ phase = "body"
    /\ prov[t].exec.pc = "fn"
    /\ UNCHANGED ncalls
    /\ Commit(t, ExecuteEnd(ProvState(t), how, fail))

\* the body of the test node has ended: no restore function is left to run
ProvEndBody ==
    /\ \A t \in Tasks : prov[t].restores = << >> /\ prov[t].exec.pc = "none"
    /\ EndBody

\* netns.go 71-73: Ginkgo runs the handler that closes the descriptor
RunCloseHandler ==
    /\ phase = "cleanup"
    /\ cleanups # << >>
    /\ nsfds' = Close(nsfds, cleanups[Len(cleanups)].fd)
    /\ torndown' = Append(torndown, cleanups[Len(cleanups)])
    /\ cleanups' = SubSeq(cleanups, 1, Len(cleanups) - 1)
    /\ UNCHANGED <<links, nextIdx, nextId, threadNs, sessions, call, phase,
                   ncalls, others>>

\* a test node may have locked its thread before it calls a provider
ProvInit ==
    /\ LinkInit
    /\ NifnameIdle
    /\ VethIdle
    /\ RefsOpen
    /\ ProvIdle
    /\ RestIdle
    /\ pins \in [Tasks -> {0, 1}]

ProvNext ==
    \/ \E t \in Tasks, fail \in NewTransientFailures : CallNetnsNewTransient(t, fail)
    \/ \E t \in Tasks, kind \in NsKinds, fail \in EnterTransientFailures :
          CallEnterTransient(t, kind, fail)
    \/ \E t \in Tasks, fail \in BOOLEAN : CallRestore(t, fail)
    \/ \E t \in Tasks, fd \in FdNumbers, fail \in ExecuteFailures :
          CallExecute(t, fd, fail)
    \/ \E t \in Tasks, how \in {"return", "panic"}, fail \in BOOLEAN :
          FnEnds(t, how, fail)
    \/ ProvEndBody
    \/ RunCloseHandler

ProvSpec == ProvInit /\ [][ProvNext]_vars

(***************************************************************************)
(* mntns.NewTransient and mntns.Execute.  Both start a task of their own    *)
(* (a helper) that locks itself to a new thread; the caller waits for it on *)
(* a channel.  A thread the runtime starts is in the mount namespace of the *)
(* process.                                                                 *)
(***************************************************************************)
NewHelper(kind, t, fd) ==
    [kind |-> kind, caller |-> t, pc |-> "start", pins |-> 0, mnt |-> HostMnt,
     target |-> fd, requested |-> "none", switched |-> FALSE, ranIn |-> "none",
     how |-> "none", ready |-> "none", fd |-> 0, done |-> FALSE, closes |-> 0,
     failed |-> FALSE, returned |-> FALSE, callerMnt |-> threadMnt[t],
     callerPins |-> pins[t], callerAfter |-> "none"]

\* part_012 119-120: the handler closes the done channel of the helper
DoneHandler(h) == [fd |-> 0, done |-> h, nlh |-> 0]

\* the descriptors a test node passes to mntns.Execute: those
\* mntns.NewTransient returned, and 0, which references no namespace
MntExecuteFds ==
    {0} \cup { f \in DOMAIN nsfds : IsMntNs(nsfds[f].ns) /\ nsfds[f].closes = 0 }

WaitFor(t, what, h) ==
    [prov EXCEPT ![t].exec = [NoExec EXCEPT !.pc = what, !.target = h]]

\* part_012 115-126 and 152: the done channel, its handler, the helper; then
\* the caller waits for the helper's message
MntNewTransient(t) ==
    /\ CanCall(t)
    /\ ncalls' = ncalls + 1
    /\ helpers' = Append(helpers, NewHelper("idler", t, 0))
    /\ cleanups' = Append(cleanups, DoneHandler(Len(helpers) + 1))
    /\ prov' = WaitFor(t, "mntnew", Len(helpers) + 1)
    /\ UNCHANGED <<links, nextIdx, nextId, threadNs, sessions, nsfds, call,
                   torndown, phase, nifname, vethcall, nsrefs, pins, threadMnt,
                   made, latervars>>

MntNewTransientFailures == {"none", "unshare", "mount", "open"}

\* a helper that closes the ready channel only after it has sent its message
ReadyClosedAfterSend(hl) == hl

\* part_012 132-134: the close of the ready channel is deferred, so that it
\* also runs when an Expect of the helper fails
ReadyClosedByDefer(hl) == [hl EXCEPT !.ready = "closed"]

\* part_012 126-151: the helper locks its thread, unshares, remounts, opens
\* its mount namespace (mntns.Current, which registers the close) and sends
\* the message; a failed Expect ends it with the ready channel closed
IdlerSetup(h, fail) ==
    /\ h \in 1..Len(helpers)
    /\ helpers[h].kind = "idler"
    /\ helpers[h].pc = "start"
    /\ LET new == Fresh(made, "mnt")
           fd == NewId(nsfds)
           locked == [helpers[h] EXCEPT !.pins = 1]
           dead(m) == ReadyClosedByDefer([locked EXCEPT !.pc = "ended", !.mnt = m,
                                                        !.failed = TRUE])
       IN  IF fail = "unshare"
           THEN /\ helpers' = [helpers EXCEPT ![h] = dead(HostMnt)]
                /\ UNCHANGED <<made, nsfds, cleanups>>
           ELSE IF fail \in {"mount", "open"}
           THEN /\ helpers' = [helpers EXCEPT ![h] = dead(new)]
                /\ made' = made \cup {new}
                /\ UNCHANGED <<nsfds, cleanups>>
           ELSE /\ helpers' = [helpers EXCEPT ![h] =
                      [locked EXCEPT !.pc = "idle", !.mnt = new, !.ready = "sent",
                                     !.fd = fd]]
                /\ made' = made \cup {new}
                /\ nsfds' = Opened(nsfds, [ns |-> new, closes |-> 0])
                /\ cleanups' = Append(cleanups, CloseHandler(fd))
    /\ UNCHANGED <<links, nextIdx, nextId, threadNs, sessions, call, torndown,
                   phase, ncalls, nifname, vethcall, nsrefs, pins, threadMnt, prov,
                   latervars>>

\* part_012 152-156: the message has come, or the zero value of the closed
\* channel, which fails the test
MntNewTransientReturn(t) ==
    /\ phase = "body"
    /\ prov[t].exec.pc = "mntnew"
    /\ LET h == prov[t].exec.target
       IN  /\ helpers[h].ready # "none"
           /\ helpers' = [helpers EXCEPT ![h].returned = TRUE]
           /\ prov' = [prov EXCEPT ![t].exec = NoExec,
                                   ![t].failed = @ \/ helpers[h].ready = "closed"]
    /\ UNCHANGED <<linkvars, nifname, vethcall, nsrefs, pins, threadMnt, made,
                   latervars>>

\* part_012 120: Ginkgo runs the handler, which closes the done channel
RunDoneHandler ==
    /\ phase = "cleanup"
    /\ cleanups # << >>
    /\ cleanups[Len(cleanups)].done # 0
    /\ helpers' = [helpers EXCEPT ![cleanups[Len(cleanups)].done] =
                      [@ EXCEPT !.done = TRUE, !.closes = @ + 1]]
    /\ torndown' = Append(torndown, cleanups[Len(cleanups)])
    /\ cleanups' = SubSeq(cleanups, 1, Len(cleanups) - 1)
    /\ UNCHANGED <<links, nextIdx, nextId, threadNs, sessions, nsfds, call, phase,
                   ncalls, nifname, vethcall, nsrefs, provvars, latervars>>

\* a helper that unlocks its thread before it ends
IdlerEndsUnpinned(hl) == [hl EXCEPT !.pc = "ended", !.pins = 0]

\* part_012 150-151: the helper falls off its function, still locked
IdlerEnded(hl) == [hl EXCEPT !.pc = "ended"]

\* part_012 150: the done channel is closed, the helper goes on
IdlerEnds(h) ==
    /\ h \in 1..Len(helpers)
    /\ helpers[h].kind = "idler"
    /\ helpers[h].pc = "idle"
    /\ helpers[h].done
    /\ helpers' = [helpers EXCEPT ![h] = IdlerEnded(@)]
    /\ UNCHANGED <<linkvars, nifname, vethcall, nsrefs, provvars, latervars>>

\* part_012 168-180 and 195: the done channel, the helper; then the caller
\* waits for the done channel to be closed
MntExecute(t, mntnsfd) ==
    /\ CanCall(t)
    /\ mntnsfd \in MntExecuteFds
    /\ ncalls' = ncalls + 1
    /\ helpers' = Append(helpers,
          [NewHelper("exec", t, mntnsfd) EXCEPT
              !.requested = IF mntnsfd = 0 THEN "none" ELSE nsfds[mntnsfd].ns])
    /\ prov' = WaitFor(t, "mntexec", Len(helpers) + 1)
    /\ UNCHANGED <<links, nextIdx, nextId, threadNs, sessions, nsfds, call,
                   cleanups, torndown, phase, nifname, vethcall, nsrefs, pins,
                   threadMnt, made, latervars>>

\* part_012 187: the Expect of the switch has no matcher, so that nothing is
\* asserted about the outcome of unix.Setns
SwitchUnasserted(ok) == TRUE

\* part_012 180-188: the helper locks its thread, unshares its filesystem
\* attributes, switches, and runs fn; a failed unshare panics, which
\* GinkgoRecover takes up before the deferred close of the done channel
ExecSetup(h, unshareFails, setnsFails) ==
    /\ h \in 1..Len(helpers)
    /\ helpers[h].kind = "exec"
    /\ helpers[h].pc = "start"
    /\ LET hl == [helpers[h] EXCEPT !.pins = 1]
           fails == \/ setnsFails
                    \/ hl.target \notin DOMAIN nsfds
                    \/ nsfds[hl.target].closes > 0
           in == IF fails THEN hl.mnt ELSE nsfds[hl.target].ns
       IN  helpers' = [helpers EXCEPT ![h] =
              IF unshareFails \/ ~SwitchUnasserted(~fails)
              THEN [hl EXCEPT !.pc = "ended", !.failed = TRUE, !.done = TRUE,
                              !.closes = @ + 1]
              ELSE [hl EXCEPT !.pc = "fn", !.mnt = in, !.switched = ~fails,
                              !.ranIn = in]]
    /\ UNCHANGED <<linkvars, nifname, vethcall, nsrefs, provvars, latervars>>

\* a helper that closes the done channel only when fn returns
DoneWhenReturned(how) == how = "return"

\* part_012 181-183: the close of the done channel is deferred
DoneDeferred(how) == TRUE

\* part_012 181-189: fn returns or panics; the thread stays locked
ExecFnEnds(h, how) ==
    /\ h \in 1..Len(helpers)
    /\ helpers[h].kind = "exec"
    /\ helpers[h].pc = "fn"
    /\ helpers' = [helpers EXCEPT ![h] =
          [@ EXCEPT !.pc = "ended", !.how = how, !.failed = how = "panic",
                    !.done = DoneDeferred(how),
                    !.closes = IF DoneDeferred(how) THEN @ + 1 ELSE @]]
    /\ UNCHANGED <<linkvars, nifname, vethcall, nsrefs, provvars, latervars>>

\* part_012 195: the done channel is closed and the caller goes on
MntExecuteReturn(t) ==
    /\ phase = "body"
    /\ prov[t].exec.pc = "mntexec"
    /\ helpers[prov[t].exec.target].done
    /\ helpers' = [helpers EXCEPT ![prov[t].exec.target] =
                      [@ EXCEPT !.returned = TRUE, !.callerAfter = threadMnt[t]]]
    /\ prov' = [prov EXCEPT ![t].exec = NoExec]
    /\ UNCHANGED <<linkvars, nifname, vethcall, nsrefs, pins, threadMnt, made,
                   latervars>>

\* Ginkgo runs a handler that closes a descriptor
RunCloseFdHandler ==
    /\ cleanups # << >>
    /\ cleanups[Len(cleanups)].done = 0
    /\ cleanups[Len(cleanups)].nlh = 0
    /\ RunCloseHandler

HelperNumbers == 1..MaxCalls

MntNext ==
    \/ \E t \in Tasks, fail \in NewTransientFailures : CallNetnsNewTransient(t, fail)
    \/ \E t \in Tasks, fd \in FdNumbers, fail \in ExecuteFailures :
          CallExecute(t, fd, fail)
    \/ \E t \in Tasks, how \in {"return", "panic"}, fail \in BOOLEAN :
          FnEnds(t, how, fail)
    \/ \E t \in Tasks : MntNewTransient(t)
    \/ \E h \in HelperNumbers, fail \in MntNewTransientFailures : IdlerSetup(h, fail)
    \/ \E t \in Tasks : MntNewTransientReturn(t)
    \/ \E h \in HelperNumbers : IdlerEnds(h)
    \/ \E t \in Tasks, fd \in FdNumbers : MntExecute(t, fd)
    \/ \E h \in HelperNumbers, unshareFails \in BOOLEAN, setnsFails \in BOOLEAN :
          ExecSetup(h, unshareFails, setnsFails)
    \/ \E h \in HelperNumbers, how \in {"return", "panic"} : ExecFnEnds(h, how)
    \/ \E t \in Tasks : MntExecuteReturn(t)
    \/ ProvEndBody
    \/ RunCloseFdHandler
    \/ RunDoneHandler

MntSpec == ProvInit /\ [][MntNext]_vars

\* a helper that can take a step takes it: the runtime schedules every task
HelperStep ==
    \/ \E h \in HelperNumbers, fail \in MntNewTransientFailures : IdlerSetup(h, fail)
    \/ \E h \in HelperNumbers : IdlerEnds(h)
    \/ \E h \in HelperNumbers, unshareFails \in BOOLEAN, setnsFails \in BOOLEAN :
          ExecSetup(h, unshareFails, setnsFails)
    \/ \E h \in HelperNumbers, how \in {"return", "panic"} : ExecFnEnds(h, how)

MntFairSpec == MntSpec /\ WF_vars(HelperStep)

\* a caller whose channel operation can complete goes on as well
CallerStep ==
    \/ \E t \in Tasks : MntNewTransientReturn(t)
    \/ \E t \in Tasks : MntExecuteReturn(t)

MntWaitSpec == MntFairSpec /\ WF_vars(CallerStep)

(***************************************************************************)
(* netns.Current and netns.NewNetlinkHandle, and the test nodes that call  *)
(* every provider of package netns.                                         *)
(***************************************************************************)
\* a Current that leaves the descriptor to its caller
CurrentUnregistered(s, fd) == s

\* netns.go 112-114: the handler closes the descriptor that is returned
CurrentRegistered(s, fd) == [s EXCEPT !.cleanups = Append(@, CloseHandler(fd))]

\* netns.go 108-126: the descriptor of the thread's network namespace
Current(s, fail) ==
    LET fd == NewId(s.fds)
        s1 == CurrentRegistered(OpenNs(s, "net"), fd)
    IN  IF fail THEN FailedOp("Current", "net", s, s, 0)
        ELSE [s1 EXCEPT !.p.last = Last("Current", "net", "ok", s, s1, fd)]

CallCurrent(t, fail) ==
    /\ CanCall(t)
    /\ ncalls' = ncalls + 1
    /\ Commit(t, Current(ProvState(t), fail))

\* deprecated.go 132-134: the handler closes the netlink handle
HandleCloser(nlh) == [fd |-> 0, done |-> 0, nlh |-> nlh]

\* the descriptors a test node passes to NewNetlinkHandle: those of the
\* handlers, and 0
HandleFds == ExecuteFds

\* deprecated.go 118-136: a netlink handle connected to the namespace of the
\* descriptor; without such a namespace the Expect fails
CallNewNetlinkHandle(t, netnsfd, fail) ==
    /\ CanCall(t)
    /\ netnsfd \in HandleFds
    /\ ncalls' = ncalls + 1
    /\ LET s == ProvState(t)
           bad == fail \/ netnsfd \notin DOMAIN nsfds \/ nsfds[netnsfd].closes > 0
           nlh == NewId(sessions)
       IN  IF bad
           THEN /\ prov' = [prov EXCEPT ![t] =
                               FailedOp("NewNetlinkHandle", "net", s, s, netnsfd).p]
                /\ UNCHANGED <<sessions, cleanups>>
           ELSE /\ sessions' = NewHandleAt(sessions, nsfds[netnsfd].ns, "netns")
                /\ cleanups' = Append(cleanups, HandleCloser(nlh))
                /\ prov' = [prov EXCEPT ![t].last =
                               Last("NewNetlinkHandle", "net", "ok", s, s, netnsfd)]
    /\ UNCHANGED <<links, nextIdx, nextId, threadNs, nsfds, call, torndown, phase,
                   nifname, vethcall, nsrefs, pins, threadMnt, made, restvars>>

\* deprecated.go 132-134: Ginkgo runs the handler that closes the handle
RunHandleCloser ==
    /\ phase = "cleanup"
    /\ cleanups # << >>
    /\ cleanups[Len(cleanups)].nlh # 0
    /\ sessions' = Close(sessions, cleanups[Len(cleanups)].nlh)
    /\ torndown' = Append(torndown, cleanups[Len(cleanups)])
    /\ cleanups' = SubSeq(cleanups, 1, Len(cleanups) - 1)
    /\ UNCHANGED <<links, nextIdx, nextId, threadNs, nsfds, call, phase, ncalls,
                   others>>

NetnsNext ==
    \/ \E t \in Tasks, fail \in BOOLEAN : CallCurrent(t, fail)
    \/ \E t \in Tasks, fail \in NewTransientFailures : CallNetnsNewTransient(t, fail)
    \/ \E t \in Tasks, fail \in EnterTransientFailures :
          CallEnterTransient(t, "net", fail)
    \/ \E t \in Tasks, fail \in BOOLEAN : CallRestore(t, fail)
    \/ \E t \in Tasks, fd \in FdNumbers, fail \in ExecuteFailures :
          CallExecute(t, fd, fail)
    \/ \E t \in Tasks, how \in {"return", "panic"}, fail \in BOOLEAN :
          FnEnds(t, how, fail)
    \/ \E t \in Tasks, fd \in FdNumbers, fail \in BOOLEAN :
          CallNewNetlinkHandle(t, fd, fail)
    \/ ProvEndBody
    \/ RunCloseFdHandler
    \/ RunHandleCloser

NetnsSpec == ProvInit /\ [][NetnsNext]_vars

(***************************************************************************)
(* netns.NsID.  The kernel keeps, per network namespace, the ids it knows   *)
(* the other namespaces by; -1 stands for no id.                            *)
(***************************************************************************)
\* netns.go 182: the attempts to assign an id
NsIDAttempts == 10

\* what rand.Int31 draws
NsIDDraws == {0, 61}

NsRefs == {"fd", "path"}

\* the namespaces the test nodes ask the id of, and those they ask from
NsIDTargets == {"n1", "n2"}

NsIDViewers == {"n0", "n1"}

NsIDFailures == {"none", "open", "get"}

\* RTM_NEWNSID: the namespace n gets the id in the table of namespace v,
\* unless n has an id there or the id is that of another namespace
CanSetNetNsId(ids, v, n, id) ==
    /\ ids[v][n] = -1
    /\ \A m \in Namespaces : ids[v][m] # id

\* an id is only known when it was assigned by a call
KnownNever(netnsid) == FALSE

\* netns.go 179: -1 signals that no id has been assigned yet
Known(netnsid) == netnsid # -1

NsIDReturn(ret, why) ==
    [nsid EXCEPT
        !.pc = "idle",
        !.pathfd = IF @ = "open" THEN "closed" ELSE @,
        !.failed = why # "none",
        !.calls = Append(@, [target |-> nsid.target, viewer |-> nsid.cur,
                             had |-> nsid.had, ret |-> ret, sets |-> nsid.sets,
                             why |-> why])]

\* netns.go 161-174: the reference becomes a descriptor; a path is opened and
\* the close is deferred
NsIDBegin(ref, n, fail) ==
    /\ nsid.pc = "idle"
    /\ ~nsid.failed
    /\ Len(nsid.calls) < MaxCalls
    /\ fail = "open" => ref = "path"
    /\ LET c == [nsid EXCEPT !.ref = ref, !.target = n, !.attempt = 0, !.sets = 0,
                             !.had = nsid.ids[nsid.cur][n],
                             !.pathfd = IF ref = "path" /\ fail # "open"
                                        THEN "open" ELSE "none"]
       IN  nsid' = [c EXCEPT !.pc = IF fail = "open" THEN "failopen"
                                    ELSE IF fail = "get" THEN "failget" ELSE "get"]
    /\ UNCHANGED <<linkvars, nifname, vethcall, nsrefs, provvars, helpers, up, nds>>

\* netns.go 170, 176: a failed Expect ends the call and fails the test
NsIDFails ==
    /\ nsid.pc \in {"failopen", "failget"}
    /\ nsid' = NsIDReturn(-2, IF nsid.pc = "failopen" THEN "open" ELSE "get")
    /\ UNCHANGED <<linkvars, nifname, vethcall, nsrefs, provvars, helpers, up, nds>>

\* netns.go 175-181: the id the namespace has, if it has one
NsIDGet ==
    /\ nsid.pc = "get"
    /\ nsid' = IF Known(nsid.ids[nsid.cur][nsid.target])
               THEN NsIDReturn(nsid.ids[nsid.cur][nsid.target], "none")
               ELSE [nsid EXCEPT !.pc = "loop", !.attempt = 1]
    /\ UNCHANGED <<linkvars, nifname, vethcall, nsrefs, provvars, helpers, up, nds>>

\* netns.go 182-192: one attempt to assign a random id; after the last
\* failed one the test fails
NsIDAttempt(draw, kernelFails) ==
    /\ nsid.pc = "loop"
    /\ LET v == nsid.cur
           n == nsid.target
           ok == ~kernelFails /\ CanSetNetNsId(nsid.ids, v, n, draw)
           set == [nsid EXCEPT !.ids[v][n] = draw, !.sets = @ + 1]
       IN  nsid' = IF ok
                   THEN [NsIDReturn(draw, "none") EXCEPT
                            !.ids = set.ids, !.sets = set.sets,
                            !.calls[Len(nsid.calls) + 1].sets = set.sets]
                   ELSE IF nsid.attempt = NsIDAttempts
                   THEN NsIDReturn(-2, "attempts")
                   ELSE [nsid EXCEPT !.attempt = @ + 1]
    /\ UNCHANGED <<linkvars, nifname, vethcall, nsrefs, provvars, helpers, up, nds>>

\* netns_test.go 123-130: between two calls the thread enters another
\* network namespace
NsIDViewerChanges(v) ==
    /\ nsid.pc = "idle"
    /\ ~nsid.failed
    /\ Len(nsid.calls) \in 1..(MaxCalls - 1)
    /\ v # nsid.cur
    /\ nsid' = [nsid EXCEPT !.cur = v]
    /\ UNCHANGED <<linkvars, nifname, vethcall, nsrefs, provvars, helpers, up, nds>>

\* a namespace may have an id before the first call: the kernel assigns ids
\* of its own when links cross namespaces
NsidInit ==
    /\ LinkInit
    /\ NifnameIdle
    /\ VethIdle
    /\ RefsOpen
    /\ ProvIdle
    /\ Unpinned
    /\ NoHelpers
    /\ UpIdle
    /\ NdsIdle
    /\ \E had \in {-1, 0, 7} :
          nsid = [NoNsid EXCEPT !.ids[HostNs]["n1"] = had]

NsidNext ==
    \/ \E ref \in NsRefs, n \in NsIDTargets, fail \in NsIDFailures :
          NsIDBegin(ref, n, fail)
    \/ NsIDFails
    \/ NsIDGet
    \/ \E draw \in NsIDDraws, kernelFails \in BOOLEAN : NsIDAttempt(draw, kernelFails)
    \/ \E v \in NsIDViewers : NsIDViewerChanges(v)

NsidSpec == NsidInit /\ [][NsidNext]_vars

(***************************************************************************)
(* link.EnsureUp.  Time is counted in probe intervals of 20ms.              *)
(***************************************************************************)
\* link.go 245: ProbeEvery(20 * time.Millisecond), 50 probes in a second
ProbesPerSecond == 50

\* link.go 223: atmost = 2 * time.Second
DefaultWithin == 2 * ProbesPerSecond

\* the optional durations test nodes pass, in probe intervals; 0 stands for
\* a duration shorter than a probe interval
Withins == { << >>, <<0>>, <<1>>, <<3>>, <<1, 1>> }

OperStates == {"down", "dormant", "unknown", "up"}

\* link.go 221-228: the maximum wait
AtMost(within) == IF Len(within) = 0 THEN DefaultWithin ELSE within[1]

\* a wait that only ends when the link is operationally up
OnlyOperUp(oper) == oper = "up"

\* link.go 238-244: operationally up or unknown
OperUpOrUnknown(oper) == oper \in {"up", "unknown"}

\* link.go 209-232: the checks of the arguments, then the link is set up
EnsureUpBegin(isNil, within, oper, setUpFails) ==
    /\ up.pc = "idle"
    /\ LET c == [up EXCEPT !.within = within, !.oper = oper]
       IN  up' = IF isNil THEN [c EXCEPT !.pc = "done", !.outcome = "nil"]
                 ELSE IF Len(within) > 1
                 THEN [c EXCEPT !.pc = "done", !.outcome = "rejected"]
                 ELSE IF setUpFails \/ ~up.exists
                 THEN [c EXCEPT !.pc = "done", !.outcome = "setupfailed",
                                !.atmost = AtMost(within)]
                 ELSE [c EXCEPT !.pc = "polling", !.admin = TRUE,
                                !.atmost = AtMost(within)]
    /\ UNCHANGED <<linkvars, nifname, vethcall, nsrefs, provvars, helpers, nsid, nds>>

\* link.go 233-246: one poll, at the time up.elapsed: a failed lookup stops
\* the wait, up or unknown ends it, anything else schedules the next poll
EnsureUpPoll ==
    /\ up.pc = "polling"
    /\ up.elapsed = 0 \/ up.elapsed <= up.atmost
    /\ LET polled == [up EXCEPT !.polls = @ + 1,
                                !.missing = @ + (IF up.exists THEN 0 ELSE 1),
                                !.good = @ + (IF up.exists /\ up.oper \in {"up", "unknown"}
                                              THEN 1 ELSE 0)]
       IN  up' = IF ~up.exists
                 THEN [polled EXCEPT !.pc = "done", !.outcome = "stopped"]
                 ELSE IF OperUpOrUnknown(up.oper)
                 THEN [polled EXCEPT !.pc = "done", !.outcome = "ok"]
                 ELSE [polled EXCEPT !.elapsed = @ + 1]
    /\ UNCHANGED <<linkvars, nifname, vethcall, nsrefs, provvars, helpers, nsid, nds>>

\* link.go 245: the bound has passed before the next poll
EnsureUpTimeout ==
    /\ up.pc = "polling"
    /\ up.polls > 0
    /\ up.elapsed >= up.atmost
    /\ up' = [up EXCEPT !.pc = "done", !.outcome = "timeout"]
    /\ UNCHANGED <<linkvars, nifname, vethcall, nsrefs, provvars, helpers, nsid, nds>>

\* between two polls the kernel changes the operational state of the link,
\* or the link is deleted
KernelChangesLink(oper, exists) ==
    /\ up.pc = "polling"
    /\ up.polls > 0
    /\ up.exists
    /\ oper # up.oper \/ ~exists
    /\ up' = [up EXCEPT !.oper = oper, !.exists = exists]
    /\ UNCHANGED <<linkvars, nifname, vethcall, nsrefs, provvars, helpers, nsid, nds>>

\* the link a test node passes exists or, as a bare description, does not
UpInit ==
    /\ LinkInit
    /\ NifnameIdle
    /\ VethIdle
    /\ RefsOpen
    /\ ProvIdle
    /\ Unpinned
    /\ NoHelpers
    /\ NsidIdle
    /\ NdsIdle
    /\ \E exists \in BOOLEAN : up = [NoUp EXCEPT !.exists = exists]

UpNext ==
    \/ \E isNil \in BOOLEAN, within \in Withins, oper \in OperStates,
          setUpFails \in BOOLEAN : EnsureUpBegin(isNil, within, oper, setUpFails)
    \/ EnsureUpPoll
    \/ EnsureUpTimeout
    \/ \E oper \in OperStates, exists \in BOOLEAN : KernelChangesLink(oper, exists)

UpSpec == UpInit /\ [][UpNext]_vars

(***************************************************************************)
(* Package netdevsim.  The devices of the bus are kept by their ids; the    *)
(* directory of the bus lists one entry per device, by name.                *)
(***************************************************************************)
\* peer.go 310
netdevsimDevicePrefix == <<"n", "e", "t", "d", "e", "v", "s", "i", "m">>

\* peer.go 307
netdevSimBus == "netdevsim"

DecimalDigits == <<"0", "1", "2", "3", "4", "5", "6", "7", "8", "9">>

IsDigit(c) == \E d \in 1..10 : DecimalDigits[d] = c

DigitValue(c) == (CHOOSE d \in 1..10 : DecimalDigits[d] = c) - 1

\* strconv.FormatUint(n, 10)
RECURSIVE FormatUint(_)
FormatUint(n) ==
    IF n < 10 THEN <<DecimalDigits[n + 1]>>
    ELSE Append(FormatUint(n \div 10), DecimalDigits[(n % 10) + 1])

\* strconv.ParseUint(s, 10, 32); -1 stands for the error.  The names of the
\* model have few digits, so that no value is out of the range of 32 bits.
RECURSIVE DecimalValue(_)
DecimalValue(s) ==
    IF s = << >> THEN 0
    ELSE 10 * DecimalValue(SubSeq(s, 1, Len(s) - 1)) + DigitValue(s[Len(s)])

ParseUint(s) ==
    IF s = << >> \/ \E i \in 1..Len(s) : ~IsDigit(s[i]) THEN -1
    ELSE DecimalValue(s)

\* strings.TrimPrefix
TrimPrefix(s, prefix) ==
    IF Len(s) >= Len(prefix) /\ SubSeq(s, 1, Len(prefix)) = prefix
    THEN SubSeq(s, Len(prefix) + 1, Len(s))
    ELSE s

\* the name of the directory entry of a device
DeviceName(id) == netdevsimDevicePrefix \o FormatUint(id)

\* the entries of the directory of the bus
DirEntries(n) == { DeviceName(id) : id \in n.devs } \cup n.extra

\* a function that takes the names as they are
NameAsIs(s, prefix) == s

\* peer.go 476: the name without the prefix of the devices
NameOfEntry(s, prefix) == TrimPrefix(s, prefix)

\* peer.go 474-482: the ids in use, from the names of the entries
IdsInUse(entries) ==
    { ParseUint(NameOfEntry(e, netdevsimDevicePrefix)) : e \in entries } \ {-1}

\* peer.go 483-489: the lowest id that is not in use
lowestAvailableID(entries) ==
    CHOOSE id \in 0..Cardinality(IdsInUse(entries)) :
        /\ id \notin IdsInUse(entries)
        /\ \A lower \in 0..(id - 1) : lower \in IdsInUse(entries)

\* the ids test nodes ask for, and the devices there may be before a test
DevIds == 0..2

\* peer.go 452-456: the handler deletes the device
DeleteHandler(id) == [fd |-> 0, done |-> 0, nlh |-> 0, del |-> id]

\* peer.go 358-365: a call begins with the devlink connection
NdsNewTransient(hasID, ID, devlinkFails) ==
    /\ nds.pc = "idle"
    /\ nds.phase = "body"
    /\ ~nds.failed
    /\ nds.calls < MaxCalls
    /\ LET c == [nds EXCEPT !.calls = @ + 1, !.hasID = hasID, !.ID = ID, !.id = 0,
                            !.attempt = 0, !.creates = 0, !.scans = 0,
                            !.takenAt = -1, !.created = FALSE,
                            !.removeNetdevsim = FALSE, !.inUse = ID \in nds.devs,
                            !.outcome = "none", !.stage = "none", !.msg = -1,
                            !.deletes = 0, !.registered = 0]
       IN  nds' = IF devlinkFails
                  THEN [c EXCEPT !.pc = "done", !.outcome = "failed",
                                 !.stage = "devlink", !.failed = TRUE]
                  ELSE [c EXCEPT !.pc = "attempt", !.attempt = 1]
    /\ UNCHANGED <<linkvars, nifname, vethcall, nsrefs, provvars, helpers, nsid, up>>

\* a failed call ends: the deferred function deletes the device when
\* removeNetdevsim is set
NdsFailed(c, stage, msg) ==
    [c EXCEPT !.pc = "done", !.outcome = "failed", !.stage = stage, !.msg = msg,
              !.failed = TRUE,
              !.devs = IF c.removeNetdevsim THEN @ \ {c.id} ELSE @,
              !.deletes = IF c.removeNetdevsim THEN @ + 1 ELSE @]

\* a collision that is always retried
GivesUpNever(hasID) == FALSE

\* peer.go 399-402: with an id of the caller a failed creation is final
GivesUp(hasID) == hasID

\* peer.go 384-392: an attempt begins with the id: the one of the caller, or
\* the lowest one that no entry of the bus has now
NdsScan(listFails) ==
    /\ nds.pc = "attempt"
    /\ LET id == IF nds.hasID THEN nds.ID ELSE lowestAvailableID(DirEntries(nds))
       IN  nds' = IF ~nds.hasID /\ listFails THEN NdsFailed(nds, "list", -1)
                  ELSE [nds EXCEPT !.pc = "create", !.id = id, !.scans = @ + 1]
    /\ UNCHANGED <<linkvars, nifname, vethcall, nsrefs, provvars, helpers, nsid, up>>

\* a loop of one attempt
NdsOneAttempt(attempt) == attempt = 1

\* peer.go 384: for attempt := 1; attempt <= 10; attempt++
NdsLastAttempt(attempt) == attempt = MaxAttempts

\* peer.go 396-405: the write to new_device; the kernel refuses an id that a
\* device has, and may refuse for another reason
NdsCreate(createFails) ==
    /\ nds.pc = "create"
    /\ LET tried == [nds EXCEPT !.creates = @ + 1,
                                !.takenAt = IF nds.id \in nds.devs THEN nds.id ELSE -1]
       IN  nds' =
              IF createFails \/ nds.id \in nds.devs
              THEN IF GivesUp(nds.hasID) THEN NdsFailed(tried, "create", nds.id)
                   ELSE IF NdsLastAttempt(nds.attempt)
                   THEN NdsFailed(tried, "attempts", -1)
                   ELSE [tried EXCEPT !.pc = "attempt", !.attempt = @ + 1]
              ELSE [tried EXCEPT !.pc = "created", !.created = TRUE,
                                 !.devs = @ \cup {nds.id}, !.removeNetdevsim = TRUE]
    /\ UNCHANGED <<linkvars, nifname, vethcall, nsrefs, provvars, helpers, nsid, up>>

\* the bus is shared by all tasks of the system: another task creates a
\* device between the scan and the creation call
OtherTaskCreates(id) ==
    /\ nds.pc = "create"
    /\ nds.creations < MaxCalls
    /\ id \notin nds.devs
    /\ nds' = [nds EXCEPT !.devs = @ \cup {id}, !.creations = @ + 1]
    /\ UNCHANGED <<linkvars, nifname, vethcall, nsrefs, provvars, helpers, nsid, up>>

NdsFailures == {"none", "materialize", "vfs", "ports", "rename"}

\* a call that still removes the device after it has registered the handler
RemoveStill == TRUE

\* peer.go 451: removeNetdevsim = false
RemoveNoMore == FALSE

\* peer.go 405-457: the wait for the device, the VFs, the names of the
\* ports and their renaming, then the handler
NdsAfterCreate(fail) ==
    /\ nds.pc = "created"
    /\ nds' =
          IF fail # "none" THEN NdsFailed(nds, fail, nds.id)
          ELSE LET c == [nds EXCEPT !.removeNetdevsim = RemoveNoMore,
                                    !.cleanups = Append(@, DeleteHandler(nds.id)),
                                    !.registered = @ + 1]
               IN  [c EXCEPT !.pc = "done", !.outcome = "ok",
                             !.devs = IF c.removeNetdevsim THEN @ \ {c.id} ELSE @,
                             !.deletes = IF c.removeNetdevsim THEN @ + 1 ELSE @]
    /\ UNCHANGED <<linkvars, nifname, vethcall, nsrefs, provvars, helpers, nsid, up>>

\* the test node goes on, or, after a failure, unwinds
NdsReturn ==
    /\ nds.pc = "done"
    /\ nds.phase = "body"
    /\ nds' = [nds EXCEPT !.pc = "idle"]
    /\ UNCHANGED <<linkvars, nifname, vethcall, nsrefs, provvars, helpers, nsid, up>>

NdsEndBody ==
    /\ nds.pc = "idle"
    /\ nds.phase = "body"
    /\ nds.calls > 0
    /\ nds' = [nds EXCEPT !.phase = "cleanup"]
    /\ UNCHANGED <<linkvars, nifname, vethcall, nsrefs, provvars, helpers, nsid, up>>

\* peer.go 452-456: Ginkgo runs the handler that deletes the device
NdsRunCleanup ==
    /\ nds.phase = "cleanup"
    /\ nds.cleanups # << >>
    /\ LET e == nds.cleanups[Len(nds.cleanups)]
       IN  nds' = [nds EXCEPT !.devs = @ \ {e.del},
                              !.torndown = Append(@, e),
                              !.cleanups = SubSeq(@, 1, Len(@) - 1)]
    /\ UNCHANGED <<linkvars, nifname, vethcall, nsrefs, provvars, helpers, nsid, up>>

\* devices of other tests may be there before the test node
NdsInit ==
    /\ LinkInit
    /\ NifnameIdle
    /\ VethIdle
    /\ RefsOpen
    /\ ProvIdle
    /\ Unpinned
    /\ NoHelpers
    /\ NsidIdle
    /\ UpIdle
    /\ \E devs \in SUBSET DevIds : nds = [NoNds EXCEPT !.devs = devs]

NdsNext ==
    \/ \E hasID \in BOOLEAN, ID \in DevIds, devlinkFails \in BOOLEAN :
          NdsNewTransient(hasID, ID, devlinkFails)
    \/ \E listFails \in BOOLEAN : NdsScan(listFails)
    \/ \E createFails \in BOOLEAN : NdsCreate(createFails)
    \/ \E id \in DevIds : OtherTaskCreates(id)
    \/ \E fail \in NdsFailures : NdsAfterCreate(fail)
    \/ NdsReturn
    \/ NdsEndBody
    \/ NdsRunCleanup

NdsSpec == NdsInit /\ [][NdsNext]_vars

(***************************************************************************)
(* lowestAvailableID on its own: calls of the function, and devices that    *)
(* are created between the calls.                                           *)
(***************************************************************************)
\* entries without a number: no suffix, a suffix that is no number, and an
\* entry of another name
OtherEntries ==
    { netdevsimDevicePrefix,
      netdevsimDevicePrefix \o <<"x">>,
      netdevsimDevicePrefix \o <<"1", "x">>,
      <<"x", "1">> }

\* the ids of the devices of the bus in a test
BusIds == 0..3

\* peer.go 464-490: one call; the directory may fail to open or to list
LowestAvailableIDCall(fails) ==
    /\ Len(nds.idcalls) < MaxCalls
    /\ nds' = [nds EXCEPT !.idcalls = Append(@,
                 [entries |-> DirEntries(nds),
                  err |-> fails,
                  ret |-> IF fails THEN 0 ELSE lowestAvailableID(DirEntries(nds))])]
    /\ UNCHANGED <<linkvars, nifname, vethcall, nsrefs, provvars, helpers, nsid, up>>

\* netdevsim_test.go 66-68: a device is created by its id
CreateDevice(id) ==
    /\ nds.idcalls # << >>
    /\ nds.creations < MaxCalls - 1
    /\ id \notin nds.devs
    /\ nds' = [nds EXCEPT !.devs = @ \cup {id}, !.creations = @ + 1]
    /\ UNCHANGED <<linkvars, nifname, vethcall, nsrefs, provvars, helpers, nsid, up>>

LowestInit ==
    /\ LinkInit
    /\ NifnameIdle
    /\ VethIdle
    /\ RefsOpen
    /\ ProvIdle
    /\ Unpinned
    /\ NoHelpers
    /\ NsidIdle
    /\ UpIdle
    /\ \E devs \in SUBSET BusIds, extra \in SUBSET OtherEntries :
          nds = [NoNds EXCEPT !.devs = devs, !.extra = extra]

LowestNext ==
    \/ \E fails \in BOOLEAN : LowestAvailableIDCall(fails)
    \/ \E id \in BusIds : CreateDevice(id)

LowestSpec == LowestInit /\ [][LowestNext]_vars

(***************************************************************************)
(* portNifnames on its own: the listing of all ports of the system, and     *)
(* one call of the function.                                                *)
(***************************************************************************)
\* the ports a listing can hold: of netdevsim devices and of another bus
PortBuses == {netdevSimBus, "pci"}

PortDevices == 0..1

PortOrdinals == 0..2

\* the longest listing
MaxListed == 3

\* the name the kernel gave to the network interface of a port
KernelName(bus, dev, ordinal) == <<bus, dev, ordinal>>

DevlinkPort(bus, dev, ordinal) ==
    [Bus |-> bus, Device |-> DeviceName(dev), Port |-> ordinal,
     Name |-> KernelName(bus, dev, ordinal)]

AllPorts ==
    { DevlinkPort(bus, dev, o) : bus \in PortBuses, dev \in PortDevices,
                                 o \in PortOrdinals }

\* the listings: ports in any order, none of them twice
Listings ==
    { l \in UNION { [1..n -> AllPorts] : n \in 0..MaxListed } :
        \A i \in DOMAIN l, j \in DOMAIN l : i # j => l[i] # l[j] }

\* a filter that looks at the name of the device only
OfDeviceOnAnyBus(port, devname) == port.Device = devname

\* peer.go 505: the port is one of the device of the netdevsim bus
OfDevice(port, devname) == port.Bus = netdevSimBus /\ port.Device = devname

\* peer.go 508-513: the list grows to the ordinal of the port, which gets
\* its name
WithPort(nifnames, port) ==
    LET grown == [i \in 1..(port.Port + 1) |->
                     IF i <= Len(nifnames) THEN nifnames[i] ELSE << >>]
        list == IF port.Port >= Len(nifnames) THEN grown ELSE nifnames
    IN  [list EXCEPT ![port.Port + 1] = port.Name]

\* peer.go 502-515: the ports of the listing, one after the other
RECURSIVE NifnamesOf(_, _)
NifnamesOf(ports, devname) ==
    IF ports = << >> THEN << >>
    ELSE LET before == NifnamesOf(SubSeq(ports, 1, Len(ports) - 1), devname)
             port == ports[Len(ports)]
         IN  IF OfDevice(port, devname) THEN WithPort(before, port) ELSE before

\* peer.go 495-516: the list and the error
portNifnames(ports, id, fails) ==
    IF fails THEN [nifnames |-> << >>, err |-> TRUE]
    ELSE [nifnames |-> NifnamesOf(ports, netdevsimDevicePrefix \o FormatUint(id)),
          err |-> FALSE]

PortNifnamesCall(id, fails) ==
    /\ ~nds.nifcall.called
    /\ nds' = [nds EXCEPT !.nifcall =
                 [called |-> TRUE, id |-> id, ret |-> portNifnames(nds.ports, id, fails)]]
    /\ UNCHANGED <<linkvars, nifname, vethcall, nsrefs, provvars, helpers, nsid, up>>

PortsInit ==
    /\ LinkInit
    /\ NifnameIdle
    /\ VethIdle
    /\ RefsOpen
    /\ ProvIdle
    /\ Unpinned
    /\ NoHelpers
    /\ NsidIdle
    /\ UpIdle
    /\ \E l \in Listings : nds = [NoNds EXCEPT !.ports = l]

PortsNext == \E id \in PortDevices \cup {2}, fails \in BOOLEAN : PortNifnamesCall(id, fails)

PortsSpec == PortsInit /\ [][PortsNext]_vars

(***************************************************************************)
(* netdevsim.NewTransient as a whole: the options, the switch into the      *)
(* requested namespace, the device with its ports, the renaming of the      *)
(* ports and the way back.  The attempts to create the device (peer.go      *)
(* 384-404) are one step here; NdsScan and NdsCreate have them one by one.   *)
(***************************************************************************)
\* peer.go 286
NetdevsimPrefix == <<"n", "d", "s", "i", "-">>

\* the port counts the test nodes ask for
PortCounts == 1..2

\* the namespaces network interfaces are made in
SimNamespaces == Namespaces \cup { NsPool("net")[i] : i \in 1..Len(NsPool("net")) }

\* the kernel names a new Ethernet interface eth<n>, with the lowest n that
\* is free in the namespace
EthName(n) == <<"e", "t", "h">> \o FormatUint(n)

FreeEthNumber(L, ns) ==
    CHOOSE n \in 0..Cardinality(L) :
        /\ ~InUse(L, ns, EthName(n))
        /\ \A m \in 0..(n - 1) : InUse(L, ns, EthName(m))

\* peer.go 396-397: the write to new_device makes the device and, in the
\* namespace of the writing thread, the network interfaces of its n ports
RECURSIVE PortsProbed(_, _, _, _)
PortsProbed(st, ns, dev, n) ==
    IF n = 0 THEN st
    ELSE LET b == PortsProbed(st, ns, dev, n - 1)
             l == [id |-> b.nextId, ns |-> ns, idx |-> b.nextIdx[ns],
                   name |-> EthName(FreeEthNumber(b.links, ns)), kind |-> "device",
                   parent |-> 0, peer |-> 0]
         IN  [links |-> b.links \cup {l},
              nextIdx |-> [b.nextIdx EXCEPT ![ns] = @ + 1],
              nextId |-> b.nextId + 1,
              ports |-> Append(b.ports, [Bus |-> netdevSimBus, Device |-> DeviceName(dev),
                                         Port |-> n - 1, link |-> b.nextId, dev |-> dev])]

\* peer.go 498: what devlink lists: the ports with the names their network
\* interfaces have now
DevlinkPorts(L, P) ==
    [i \in DOMAIN P |->
        [Bus |-> P[i].Bus, Device |-> P[i].Device, Port |-> P[i].Port,
         Name |-> (CHOOSE l \in L : l.id = P[i].link).name]]

\* peer.go 379-380 and 454-455: the write to del_device removes the device
\* and the network interfaces of its ports
DeviceDeleted(L, P, dev) ==
    { l \in L : ~\E i \in DOMAIN P : P[i].dev = dev /\ P[i].link = l.id }

PortsWithout(P, dev) == SelectSeq(P, LAMBDA p : p.dev # dev)

\* peer.go 434-438: netlink.LinkSetName over a socket in namespace ns.  The
\* link is looked up by its name; the kernel refuses a name that is in use
\* and may refuse for another reason
LinkSetNameError(L, ns, name, newname, kernel) ==
    IF LinkByName(L, ns, name) = {} THEN "ENODEV"
    ELSE IF InUse(L, ns, newname) THEN "EEXIST"
    ELSE kernel

LinkSetName(L, ns, name, newname) ==
    { IF l.ns = ns /\ l.name = name THEN [l EXCEPT !.name = newname] ELSE l : l \in L }

\* the errors of the kernel other than those of the names
RenameErrors == {"ok", "EBUSY"}

\* descriptors that carry no namespace
PortNamespaceNone(netnsfd, F) == NoNs

\* peer.go 422-425: the namespace the descriptors of the ports carry
PortNamespace(netnsfd, F) == IF netnsfd >= 0 THEN NsFd(F[netnsfd].ns) ELSE NoNs

\* the state a step of netdevsim.NewTransient of task t ends in
SimCommit(t, s) ==
    /\ threadNs' = [threadNs EXCEPT ![t] = s.net]
    /\ threadMnt' = [threadMnt EXCEPT ![t] = s.mnt]
    /\ pins' = [pins EXCEPT ![t] = s.pins]
    /\ nsfds' = s.fds
    /\ made' = s.made
    /\ cleanups' = s.cleanups
    /\ prov' = [prov EXCEPT ![t] = s.p]
    /\ UNCHANGED <<sessions, call, torndown, phase, nifname, vethcall, nsrefs,
                   helpers, nsid, up>>

\* peer.go 330-348 and 364: the options, then netns.Execute up to the call
\* of newTransient when a namespace was asked for
SimNewTransient(t, ports, netnsfd, fail) ==
    /\ CanCall(t)
    /\ nds.nt.pc \in {"idle", "done"}
    /\ netnsfd \in {-1} \cup ExecuteFds
    /\ netnsfd = -1 => fail = "none"
    /\ LET s == IF netnsfd >= 0 THEN ExecuteBegin(ProvState(t), netnsfd, fail)
                ELSE ProvState(t)
           c == [NoNt EXCEPT !.task = t, !.Ports = ports, !.NetnsFd = netnsfd,
                             !.ns0 = threadNs[t], !.pins0 = pins[t],
                             !.call = ncalls + 1]
       IN  /\ SimCommit(t, s)
           /\ nds' = [nds EXCEPT !.nt =
                        IF s.p.failed
                        THEN [c EXCEPT !.pc = "done", !.outcome = "failed",
                                       !.stage = "execute"]
                        ELSE [c EXCEPT !.pc = "create", !.inNs = s.net]]
    /\ ncalls' = ncalls + 1
    /\ UNCHANGED <<links, nextIdx, nextId>>

\* fail(...) and a failed Expect panic; peer.go 372-382: the deferred
\* function deletes the device when removeNetdevsim is set
SimFailed(c, stage) ==
    [c EXCEPT !.pc = "ending", !.outcome = "failed", !.stage = stage,
              !.removeNetdevsim = FALSE,
              !.deletes = IF c.removeNetdevsim THEN @ + 1 ELSE @]

SimFailures == {"none", "devlink", "create", "materialize", "vfs", "ports"}

\* peer.go 364-420: the device, the wait for it, the VFs and the names of
\* the network interfaces of its ports
SimCreate(fail) ==
    /\ nds.nt.pc = "create"
    /\ LET c == nds.nt
           id == lowestAvailableID(DirEntries(nds))
           st == PortsProbed([links |-> links, nextIdx |-> nextIdx, nextId |-> nextId,
                              ports |-> nds.simports],
                             threadNs[c.task], id, c.Ports)
           names == portNifnames(DevlinkPorts(st.links, st.ports), id, fail = "ports")
           made1 == [c EXCEPT !.id = id, !.removeNetdevsim = TRUE]
       IN  IF fail \in {"devlink", "create"}
           THEN /\ nds' = [nds EXCEPT !.nt = SimFailed(c, fail)]
                /\ UNCHANGED <<links, nextIdx, nextId>>
           ELSE /\ nextIdx' = st.nextIdx
                /\ nextId' = st.nextId
                /\ IF fail # "none"
                   THEN /\ links' = links
                        /\ nds' = [nds EXCEPT !.nt = SimFailed(made1, fail)]
                   ELSE /\ links' = st.links
                        /\ nds' = [nds EXCEPT
                              !.devs = @ \cup {id},
                              !.simports = st.ports,
                              !.nt = [made1 EXCEPT !.pc = "rename",
                                                   !.nifnames = names.nifnames,
                                                   !.port = 1, !.attempt = 1]]
    /\ UNCHANGED <<threadNs, sessions, nsfds, call, cleanups, torndown, phase,
                   ncalls, nifname, vethcall, nsrefs, provvars, helpers, nsid, up>>

\* peer.go 438-440: the loop goes on after any error
Retries(err) == err # "ok"

\* peer.go 427-457: one attempt to rename the port at hand; after the last
\* port the handler that deletes the device is registered
SimRename(draws, kernel) ==
    /\ nds.nt.pc = "rename"
    /\ LET c == nds.nt
           ns == threadNs[c.task]
           portname == c.nifnames[c.port]
           randomname == base62Nifname(NetdevsimPrefix, draws)
           err == LinkSetNameError(links, ns, portname, randomname, kernel)
           tried == [c EXCEPT !.tries = @ + 1, !.errs = @ \cup ({err} \ {"ok"})]
           named == [tried EXCEPT
                        !.links = Append(@, [Name |-> randomname,
                                             Namespace |-> PortNamespace(c.NetnsFd, nsfds)])]
           gone == [nds EXCEPT !.devs = @ \ {c.id},
                               !.simports = PortsWithout(@, c.id)]
       IN  IF err = "ok"
           THEN /\ links' = LinkSetName(links, ns, portname, randomname)
                /\ IF c.port < Len(c.nifnames)
                   THEN /\ nds' = [nds EXCEPT !.nt = [named EXCEPT !.port = @ + 1,
                                                                   !.attempt = 1]]
                        /\ UNCHANGED cleanups
                   ELSE /\ nds' = [nds EXCEPT !.nt = [named EXCEPT
                                      !.pc = "ending", !.outcome = "ok",
                                      !.removeNetdevsim = FALSE]]
                        /\ cleanups' = Append(cleanups, DeleteHandler(c.id))
           ELSE /\ UNCHANGED cleanups
                /\ IF Retries(err) /\ c.attempt < MaxAttempts
                   THEN /\ links' = links
                        /\ nds' = [nds EXCEPT !.nt = [tried EXCEPT
                                      !.attempt = @ + 1,
                                      !.retriedAfter = @ \cup {err}]]
                   ELSE /\ links' = DeviceDeleted(links, nds.simports, c.id)
                        /\ nds' = [gone EXCEPT !.nt =
                                      [SimFailed(tried, "rename") EXCEPT
                                          !.failedAfter = err,
                                          !.failedAt = c.attempt]]
    /\ UNCHANGED <<nextIdx, nextId, threadNs, sessions, nsfds, call, torndown,
                   phase, ncalls, nifname, vethcall, nsrefs, provvars, helpers,
                   nsid, up>>

\* peer.go 343-349: newTransient has returned or has panicked; netns.Execute
\* switches back when a namespace was asked for
SimReturn(failBack) ==
    /\ nds.nt.pc = "ending"
    /\ LET c == nds.nt
           t == c.task
           how == IF c.outcome = "ok" THEN "return" ELSE "panic"
           s0 == ProvState(t)
           s == IF c.NetnsFd >= 0 THEN ExecuteEnd(s0, how, failBack)
                ELSE [s0 EXCEPT !.p.failed = c.outcome # "ok"]
       IN  /\ c.NetnsFd = -1 => ~failBack
           /\ SimCommit(t, s)
           /\ nds' = [nds EXCEPT !.nt =
                        [c EXCEPT !.pc = "done",
                                  !.outcome = IF s.p.failed THEN "failed" ELSE "ok",
                                  !.stage = IF c.outcome = "ok" /\ s.p.failed
                                            THEN "back" ELSE @,
                                  !.ret = IF s.p.failed THEN << >> ELSE c.links]]
    /\ UNCHANGED <<links, nextIdx, nextId, ncalls>>

\* ensure/load.go 207: the test node makes the namespace it asks for
SimNetnsNewTransient(t, fail) ==
    /\ nds.nt.pc \in {"idle", "done"}
    /\ CallNetnsNewTransient(t, fail)

\* the body of the test node has ended
SimEndBody ==
    /\ nds.nt.pc \in {"idle", "done"}
    /\ ProvEndBody

\* netns.go 71-73 and peer.go 452-456: Ginkgo runs the handler registered
\* last: it closes a descriptor or deletes a device
SimRunCleanup ==
    /\ phase = "cleanup"
    /\ cleanups # << >>
    /\ LET e == cleanups[Len(cleanups)]
           deletes == "del" \in DOMAIN e
       IN  /\ nsfds' = IF deletes THEN nsfds ELSE Close(nsfds, e.fd)
           /\ links' = IF deletes THEN DeviceDeleted(links, nds.simports, e.del)
                       ELSE links
           /\ nds' = IF deletes
                     THEN [nds EXCEPT !.devs = @ \ {e.del},
                                      !.simports = PortsWithout(@, e.del)]
                     ELSE nds
           /\ torndown' = Append(torndown, e)
           /\ cleanups' = SubSeq(cleanups, 1, Len(cleanups) - 1)
    /\ UNCHANGED <<nextIdx, nextId, threadNs, sessions, call, phase, ncalls,
                   nifname, vethcall, nsrefs, provvars, helpers, nsid, up>>

\* the interfaces of the namespaces unshare makes are numbered as well; their
\* loopback interfaces play no part
SimInit ==
    /\ links = { Loopback("n0", 1), Loopback("n1", 2), Loopback("n2", 3) }
    /\ nextIdx = [n \in SimNamespaces |-> 2]
    /\ nextId = 4
    /\ threadNs = [t \in Tasks |-> HostNs]
    /\ sessions = << >>
    /\ nsfds = << >>
    /\ call = [t \in Tasks |-> IdleCall]
    /\ cleanups = << >>
    /\ torndown = << >>
    /\ phase = "body"
    /\ ncalls = 0
    /\ NifnameIdle
    /\ VethIdle
    /\ RefsOpen
    /\ ProvIdle
    /\ RestIdle
    /\ pins \in [Tasks -> {0, 1}]

SimNext ==
    \/ \E t \in Tasks, fail \in NewTransientFailures : SimNetnsNewTransient(t, fail)
    \/ \E t \in Tasks, ports \in PortCounts, fd \in {-1} \cup FdNumbers,
          fail \in ExecuteFailures : SimNewTransient(t, ports, fd, fail)
    \/ \E fail \in SimFailures : SimCreate(fail)
    \/ \E draws \in RandomDraws, kernel \in RenameErrors : SimRename(draws, kernel)
    \/ \E failBack \in BOOLEAN : SimReturn(failBack)
    \/ SimEndBody
    \/ SimRunCleanup

SimSpec == SimInit /\ [][SimNext]_vars

(***************************************************************************)
(* netdevsim.Link and netdevsim.Unlink.  The descriptors the test nodes     *)
(* pass carry a name, an index (zero when unknown) and a namespace: none,   *)
(* or a netlink.NsFd with the number of a file descriptor.                  *)
(***************************************************************************)
NsFdNumber(fd) == [type |-> "NsFd", fd |-> fd]

PortDesc(name, index, ref) == [Name |-> name, Index |-> index, Namespace |-> ref]

\* ensure/load.go 266: a name no interface has
NotExist == <<"%">>

\* the descriptors the test node holds: 0 is the standard input, 1 and 2 reference
\* the namespaces n1 and n2, 9 is no open descriptor
CallerFds == {1, 2}

LinkRefs == {NoNs} \cup { NsFdNumber(fd) : fd \in CallerFds \cup {0, 9} }

PortName == base62Nifname(NetdevsimPrefix, [i \in 1..maxNifnameLen |-> 0])

\* the descriptors: the port interfaces of the model have the index 2
LinkDescs ==
    { PortDesc(name, index, ref) :
        name \in {PortName, NotExist}, index \in {0, 2}, ref \in LinkRefs }

\* what linkFds returns, with the descriptors and handles as it leaves them;
\* opened is the descriptor it obtained and lookedIn the namespace in which
\* it looked for the name
LinkFdsResult(F, S, netnsfd, ifindex, err, opened, lookedIn) ==
    [fds |-> F, sessions |-> S, netnsfd |-> netnsfd, ifindex |-> ifindex,
     err |-> err, opened |-> opened, lookedIn |-> lookedIn]

\* unix.Dup fails on what is not an open descriptor
DupFails(F, fd) == fd \notin DOMAIN F \/ F[fd].closes > 0

\* unix.Dup: a new descriptor of the same open file
Dup(F, fd) == Opened(F, [ns |-> F[fd].ns, closes |-> 0])

\* a look-up through a socket of the thread's namespace
LookupInCurrent(F, fd, tns) == tns

\* peer.go 91-97: the look-up goes through a handle of the namespace the
\* duplicate references
LookupNs(F, fd, tns) == F[fd].ns

\* peer.go 93 and 99: the duplicate is closed before the error is returned
ClosedOnError(F, fd) == Close(F, fd)

\* peer.go 77-122
linkFds(F, S, L, tns, l, fail) ==
    LET ref == l.Namespace
        dup == NewId(F)
        F1 == Dup(F, ref.fd)
        nlh == NewId(S)
        ns == LookupNs(F1, dup, tns)
        S1 == NewHandleAt(S, ns, "linkFds")
        found == LinkByName(L, ns, l.Name)
        here == LinkByName(L, tns, l.Name)
        cur == NewId(F)
        looked == IF l.Index = 0 THEN tns ELSE "none"
    IN  IF ref.type = "NsFd"
        THEN IF DupFails(F, ref.fd) \/ fail = "dup"
             THEN LinkFdsResult(F, S, 0, 0, "dup", 0, "none")
             ELSE IF l.Index # 0
             THEN LinkFdsResult(F1, S, dup, l.Index, "ok", dup, "none")
             ELSE IF F1[dup].ns = "none" \/ fail = "handle"
             THEN LinkFdsResult(ClosedOnError(F1, dup), S, 0, 0, "handle", dup, "none")
             ELSE IF found = {} \/ fail = "lookup"
             THEN LinkFdsResult(ClosedOnError(F1, dup), Close(S1, nlh), 0, 0, "name",
                                dup, ns)
             ELSE LinkFdsResult(F1, Close(S1, nlh), dup,
                                (CHOOSE f \in found : TRUE).idx, "ok", dup, ns)
        ELSE IF l.Index = 0 /\ (here = {} \/ fail = "lookup")
             THEN LinkFdsResult(F, S, 0, 0, "name", 0, tns)
             ELSE IF fail = "open"
             THEN LinkFdsResult(F, S, 0, 0, "open", 0, looked)
             ELSE LinkFdsResult(Opened(F, [ns |-> tns, closes |-> 0]), S, cur,
                                IF l.Index = 0 THEN (CHOOSE f \in here : TRUE).idx
                                ELSE l.Index,
                                "ok", cur, looked)

LinkFdsFailures == {"none", "dup", "handle", "lookup", "open"}

\* peer.go 37-41 and 62-65: Link(dupond, dupont) and Unlink(l); a nil link
\* fails the test
LinkCall(t, op, args, isNil) ==
    /\ nds.lk.pc \in {"idle", "done"}
    /\ nds.lk.outcome # "failed"
    /\ nds.lk.calls < MaxCalls
    /\ Len(args) = IF op = "Link" THEN 2 ELSE 1
    /\ LET c == [NoLk EXCEPT !.op = op, !.task = t, !.args = args,
                             !.calls = nds.lk.calls + 1]
       IN  nds' = [nds EXCEPT !.lk =
                     IF isNil THEN [c EXCEPT !.pc = "done", !.outcome = "failed",
                                             !.stage = "nil"]
                     ELSE [c EXCEPT !.pc = "linkFds"]]
    /\ nsfds' = Forget(nsfds, {})
    /\ sessions' = Forget(sessions, {})
    /\ UNCHANGED <<links, nextIdx, nextId, threadNs, call, cleanups, torndown,
                   phase, ncalls, nifname, vethcall, nsrefs, provvars, helpers,
                   nsid, up>>

\* a call that leaves what it obtained open
LeftOpen(F, fd) == F

\* peer.go 45, 48 and 69: the deferred functions close what linkFds returned
ClosedAfterUse(F, fd) == Close(F, fd)

\* the deferred functions of the sides resolved so far, last in, first out
RECURSIVE DeferredCloses(_, _)
DeferredCloses(F, sides) ==
    IF sides = << >> THEN F
    ELSE DeferredCloses(ClosedAfterUse(F, sides[Len(sides)].netnsfd),
                        SubSeq(sides, 1, Len(sides) - 1))

\* peer.go 43-48 and 67-69: linkFds of the next side; its error fails the
\* test, and the deferred functions of the sides before it run
LinkResolve(fail) ==
    /\ nds.lk.pc = "linkFds"
    /\ LET c == nds.lk
           l == c.args[Len(c.sides) + 1]
           r == linkFds(nsfds, sessions, links, threadNs[c.task], l, fail)
           side == [netnsfd |-> r.netnsfd, ifindex |-> r.ifindex, err |-> r.err,
                    opened |-> r.opened, lookedIn |-> r.lookedIn]
           sides == Append(c.sides, side)
       IN  /\ sessions' = r.sessions
           /\ IF r.err # "ok"
              THEN /\ nsfds' = DeferredCloses(r.fds, c.sides)
                   /\ nds' = [nds EXCEPT !.lk = [c EXCEPT !.pc = "done", !.sides = sides,
                                                          !.outcome = "failed",
                                                          !.stage = "linkFds"]]
              ELSE /\ nsfds' = r.fds
                   /\ nds' = [nds EXCEPT !.lk =
                                 [c EXCEPT !.sides = sides,
                                           !.pc = IF Len(sides) = Len(c.args)
                                                  THEN "write" ELSE "linkFds"]]
    /\ UNCHANGED <<links, nextIdx, nextId, threadNs, call, cleanups, torndown,
                   phase, ncalls, nifname, vethcall, nsrefs, provvars, helpers,
                   nsid, up>>

\* the port interface a pair of descriptor and index references
PortAt(F, L, side) ==
    IF F[side.netnsfd].ns = "none" THEN {}
    ELSE { l.id : l \in { x \in LinkByIndex(L, F[side.netnsfd].ns, side.ifindex) :
                            x.kind = "device" } }

\* peer.go 50-56 and 70-71: the write to link_device or unlink_device; the
\* kernel refuses what references no port interface
LinkWrite(kernelFails) ==
    /\ nds.lk.pc = "write"
    /\ LET c == nds.lk
           ports == [i \in 1..Len(c.sides) |-> PortAt(nsfds, links, c.sides[i])]
           refused == kernelFails \/ \E i \in 1..Len(c.sides) : ports[i] = {}
           ids == UNION { ports[i] : i \in 1..Len(c.sides) }
       IN  /\ nsfds' = DeferredCloses(nsfds, c.sides)
           /\ nds' = [nds EXCEPT
                 !.peers = IF refused THEN @
                           ELSE IF c.op = "Link" THEN @ \cup {ids}
                           ELSE { p \in @ : p \cap ids = {} },
                 !.lk = [c EXCEPT !.pc = "done", !.writes = @ + 1,
                                  !.written = [i \in 1..Len(c.sides) |->
                                                  <<c.sides[i].netnsfd, c.sides[i].ifindex>>],
                                  !.outcome = IF refused THEN "failed" ELSE "ok",
                                  !.stage = IF refused THEN "write" ELSE "none"]]
    /\ UNCHANGED <<links, nextIdx, nextId, threadNs, sessions, call, cleanups,
                   torndown, phase, ncalls, nifname, vethcall, nsrefs, provvars,
                   helpers, nsid, up>>

\* ensure/load.go 279-306: the test node has made namespaces and devices: a
\* port interface in its own namespace and one in each of two other
\* namespaces, and holds descriptors of these namespaces
LkInit ==
    /\ links = { Loopback("n0", 1), Loopback("n1", 2), Loopback("n2", 3) }
                 \cup { [id |-> 4 + i, ns |-> <<"n0", "n1", "n2">>[i + 1], idx |-> 2,
                         name |-> PortName, kind |-> "device", parent |-> 0,
                         peer |-> 0] : i \in 0..2 }
    /\ nextIdx = [n \in Namespaces |-> 3]
    /\ nextId = 7
    /\ threadNs = [t \in Tasks |-> HostNs]
    /\ sessions = << >>
    /\ nsfds = [fd \in 0..2 |->
                  [ns |-> <<"none", "n1", "n2">>[fd + 1], closes |-> 0]]
    /\ call = [t \in Tasks |-> IdleCall]
    /\ cleanups = << >>
    /\ torndown = << >>
    /\ phase = "body"
    /\ ncalls = 0
    /\ NifnameIdle
    /\ VethIdle
    /\ RefsOpen
    /\ ProvIdle
    /\ Unpinned
    /\ RestIdle

LkNext ==
    \/ \E t \in Tasks, d1 \in LinkDescs, d2 \in LinkDescs, isNil \in BOOLEAN :
          LinkCall(t, "Link", <<d1, d2>>, isNil)
    \/ \E t \in Tasks, d \in LinkDescs, isNil \in BOOLEAN :
          LinkCall(t, "Unlink", <<d>>, isNil)
    \/ \E fail \in LinkFdsFailures : LinkResolve(fail)
    \/ \E kernelFails \in BOOLEAN : LinkWrite(kernelFails)

LkSpec == LkInit /\ [][LkNext]_vars

(***************************************************************************)
(* Vocabulary of the properties.                                            *)
(***************************************************************************)
Ended(t) == call[t].pc = "done"

Succeeded(t) == Ended(t) /\ call[t].outcome = "ok"

Failed(t) == Ended(t) /\ call[t].outcome = "failed"

InCall(t) == call[t].pc \in {"gen", "add", "lookup"}

AllTornDown == phase = "cleanup" /\ cleanups = << >>

Destination(t) == call[t].tmpl.Link.Namespace

Resolution(t) == Unwrap(call[t].tmpl).namespace

TheLink(id) == CHOOSE l \in links : l.id = id

Exists(id) == \E l \in links : l.id = id

Pending(h) == \E i \in 1..Len(cleanups) : cleanups[i].netnsh = h

(***************************************************************************)
(* C1: when all registered teardowns of the test node have run, no link of  *)
(* the name a successful link.NewTransient returned is found in the         *)
(* namespace in which the link it created resided.                          *)
(***************************************************************************)
C1_GoneAfterTeardown ==
    AllTornDown =>
        \A i \in 1..Len(torndown) :
            LinkByName(links, torndown[i].resided, torndown[i].link.Name) = {}

(***************************************************************************)
(* C2: a call whose creation request succeeded never ends in a failure      *)
(* without a teardown for the created link being registered.                *)
(***************************************************************************)
C2_TeardownBeforeFailure ==
    \A t \in Tasks :
        (Failed(t) /\ call[t].lastErr = "ok") => call[t].registered

UsedByCall(h) == \E t \in Tasks : InCall(t) /\ call[t].netnsh = h

LinkHandleOfCall(h) == \E t \in Tasks : InCall(t) /\ call[t].linknetnsh = h

FdOfCall(f) == \E t \in Tasks : InCall(t) /\ call[t].netnsfd = f

(***************************************************************************)
(* C3: every handle created for the namespace the link ends up in is closed *)
(* once and no more: it is open while its call runs and while a registered  *)
(* teardown holds it, and has been closed exactly once otherwise, so by the *)
(* call when it ended without registering and by the teardown when not; the *)
(* link namespace handle and the descriptor of the current namespace have   *)
(* been closed exactly once whenever no call that uses them is running.     *)
(***************************************************************************)
C3_ClosedExactlyOnce ==
    /\ \A h \in DOMAIN sessions :
          IF sessions[h].role = "dest"
          THEN IF Pending(h) \/ UsedByCall(h)
               THEN sessions[h].closes = 0
               ELSE sessions[h].closes = 1
          ELSE IF LinkHandleOfCall(h)
               THEN sessions[h].closes = 0
               ELSE sessions[h].closes = 1
    /\ \A f \in DOMAIN nsfds :
          IF FdOfCall(f) THEN nsfds[f].closes = 0 ELSE nsfds[f].closes = 1
    /\ \A t \in Tasks :
          Ended(t) /\ call[t].destsess # 0 =>
              (call[t].registered <=>
                  (Pending(call[t].destsess)
                   \/ \E i \in 1..Len(torndown) : torndown[i].netnsh = call[t].destsess))

\* C3, its case: a call that failed after it had created all its handles,
\* and a teardown of an earlier call that has run
C3_Witness ==
    /\ torndown # << >>
    /\ \E t \in Tasks :
          /\ Failed(t)
          /\ call[t].destsess # 0
          /\ call[t].linknetnsh # 0
          /\ call[t].adds > 0

Malformed(ref) == ref.type \notin {"nil", "NsFd"}

C4_Rejected ==
    \A t \in Tasks :
        (call[t].pc # "idle" /\ (Malformed(Destination(t)) \/ Malformed(Resolution(t)))) =>
            /\ Failed(t)
            /\ call[t].linknetnsh = 0
            /\ call[t].destsess = 0
            /\ call[t].netnsfd = 0
            /\ call[t].gens = 0
            /\ call[t].adds = 0
            /\ call[t].created = 0
            /\ ~call[t].registered

\* C4, its case: a valid destination with a malformed link namespace, after
\* a first call has left a handle behind
C4_Witness ==
    \E t \in Tasks :
        /\ Failed(t)
        /\ Destination(t) = NsFd("n1")
        /\ Malformed(Resolution(t))
        /\ DOMAIN sessions # {}

(***************************************************************************)
(* C4: a call with a destination reference that is neither nil nor an NsFd, *)
(* or with a link namespace reference that is neither nil nor an NsFd, ends *)
(* in a failure without having created a handle, opened a descriptor,       *)
(* generated a name, sent a creation request or registered a teardown, and  *)
(* the step of such a call leaves the handles, the descriptors, the links   *)
(* and the registered teardowns as they are.                                *)
(***************************************************************************)
C4_RejectedBeforeKernel ==
    /\ []C4_Rejected
    /\ [][\A t \in Tasks :
            (call'[t] # call[t] /\ call'[t].pc # "idle"
             /\ (Malformed(call'[t].tmpl.Link.Namespace)
                 \/ Malformed(Unwrap(call'[t].tmpl).namespace)))
            => /\ \A h \in DOMAIN sessions' :
                     h \in DOMAIN sessions /\ sessions'[h] = sessions[h]
               /\ \A f \in DOMAIN nsfds' :
                     f \in DOMAIN nsfds /\ nsfds'[f] = nsfds[f]
               /\ UNCHANGED <<links, cleanups>>]_vars

(***************************************************************************)
(* C5: a creation request that is not the first of its call follows a       *)
(* request that failed with EEXIST; a name has been generated for every     *)
(* request, and a peer name when the link is a VETH; a request that fails   *)
(* with another error ends the call at once, in a failure whose message     *)
(* names the kind, and registers nothing.                                   *)
(***************************************************************************)
C5_RetryOnlyOnCollision ==
    [][\A t \in Tasks :
          call'[t].adds = call[t].adds + 1 =>
             /\ call[t].adds >= 1 => call[t].lastErr = "EEXIST"
             /\ call[t].gens = call[t].adds + 1
             /\ call[t].link.kind = "veth" => call[t].peergens = call[t].adds + 1
             /\ call'[t].lastErr \notin {"ok", "EEXIST"} =>
                   /\ call'[t].pc = "done"
                   /\ call'[t].outcome = "failed"
                   /\ call'[t].msg = [text |-> "cannot create a transient network interface",
                                      kind |-> call[t].tmpl.Link.kind]
                   /\ ~call'[t].registered
                   /\ cleanups' = cleanups]_vars

\* C5, its case: a second request, after a name collision, that failed for
\* a parent index of zero
C5_Witness ==
    \E t \in Tasks :
        /\ Failed(t)
        /\ call[t].adds >= 2
        /\ call[t].lastErr = "EINVAL"

C6_Exhausted(t) ==
    /\ Ended(t)
    /\ call[t].adds = MaxAttempts
    /\ call[t].lastErr = "EEXIST"

C6_Bounded ==
    \A t \in Tasks :
        /\ call[t].adds <= MaxAttempts
        /\ C6_Exhausted(t) =>
              /\ call[t].outcome = "failed"
              /\ call[t].msg =
                    [text |-> "too many failed attempts to create a transient network interface",
                     kind |-> call[t].tmpl.Link.kind]
              /\ call[t].created = 0
              /\ ~call[t].registered
              /\ ~Pending(call[t].destsess)

(***************************************************************************)
(* C6: a call sends at most MaxAttempts creation requests and then ends;    *)
(* when the last of MaxAttempts requests failed with EEXIST the call ends   *)
(* in a failure whose message names the kind, it has created no link and    *)
(* registered no teardown, and a request that fails this way leaves the     *)
(* links and the registered teardowns as they were.                         *)
(***************************************************************************)
C6_TerminatesWithinTenAttempts ==
    /\ []C6_Bounded
    /\ [][\A t \in Tasks :
            (call'[t].adds = call[t].adds + 1 /\ call'[t].lastErr = "EEXIST")
            => UNCHANGED <<links, cleanups>>]_vars
    /\ \A t \in Tasks : InCall(t) ~> Ended(t)

\* C6, its case: a call that ended after MaxAttempts name collisions
C6_Witness == \E t \in Tasks : C6_Exhausted(t) /\ Failed(t)

WithDestination(t) ==
    /\ Succeeded(t)
    /\ phase = "body"
    /\ Destination(t).type = "NsFd"

FoundInDestination(t) ==
    \E l \in LinkByName(links, Destination(t).ns, call[t].link.Name) :
        /\ l.id = call[t].created
        /\ l.idx = call[t].link.Index

ThreeNamespaces(t) ==
    /\ call[t].link.kind = "macvlan"
    /\ phase = "body"
    /\ Destination(t).type = "NsFd"
    /\ Resolution(t).type = "NsFd"
    /\ Destination(t).ns # call[t].cur
    /\ Resolution(t).ns # call[t].cur
    /\ Resolution(t).ns # Destination(t).ns

ParentIn(ns, t) == LinkByIndex(links, ns, call[t].link.ParentIndex)

(***************************************************************************)
(* C8: for a MACVLAN whose link namespace, destination namespace and        *)
(* caller's namespace are three different namespaces, the creation request  *)
(* succeeds if a link with the parent index exists in the link namespace    *)
(* and fails (other than by a name collision) if none does; the parent of   *)
(* the created link is that link; the created link is found by name in the  *)
(* destination namespace and no link of that name in the link namespace.    *)
(***************************************************************************)
C8_ParentInLinkNamespace ==
    \A t \in Tasks :
        ThreeNamespaces(t) =>
            /\ call[t].lastErr = "ok" =>
                  /\ ParentIn(Resolution(t).ns, t) # {}
                  /\ Exists(call[t].created)
                  /\ \E p \in ParentIn(Resolution(t).ns, t) :
                        TheLink(call[t].created).parent \in {p.id, p.parent}
            /\ call[t].lastErr \in {"EINVAL", "ENODEV"} =>
                  ParentIn(Resolution(t).ns, t) = {}
            /\ Succeeded(t) =>
                  /\ \E l \in LinkByName(links, Destination(t).ns, call[t].link.Name) :
                        l.id = call[t].created
                  /\ LinkByName(links, Resolution(t).ns, call[t].link.Name) = {}

\* C8, its case: no other link has the parent index in the caller's or in
\* the destination namespace
C8_Witness ==
    \E t \in Tasks :
        /\ ThreeNamespaces(t)
        /\ Succeeded(t)
        /\ ParentIn(call[t].cur, t) = {}
        /\ \A l \in ParentIn(Destination(t).ns, t) : l.id = call[t].created

ExpectedNs(t) ==
    IF Destination(t).type = "NsFd" THEN Destination(t).ns ELSE call[t].cur

(***************************************************************************)
(* C9: once the creation request of a call has succeeded, the created link  *)
(* is in the destination namespace if the description names one and in the  *)
(* caller's namespace otherwise, and the handle kept for the index lookup   *)
(* and the teardown is connected to that namespace.                         *)
(***************************************************************************)
C9_ResidesWhereSessionIs ==
    \A t \in Tasks :
        (call[t].pc \in {"lookup", "done"} /\ call[t].lastErr = "ok" /\ phase = "body") =>
            /\ NsOfLink(links, call[t].created) = ExpectedNs(t)
            /\ sessions[call[t].destsess].ns = ExpectedNs(t)

(***************************************************************************)
(* C10: the index of the description a successful call returns is not zero  *)
(* and is the index of the created link, which bears the returned name; a   *)
(* call whose index lookup failed has ended, and the request that created   *)
(* the link was its last.                                                   *)
(***************************************************************************)
C10_IndexIsAuthoritative ==
    \A t \in Tasks :
        /\ (Succeeded(t) /\ phase = "body") =>
              /\ call[t].link.Index # 0
              /\ \E l \in links :
                    /\ l.id = call[t].created
                    /\ l.name = call[t].link.Name
                    /\ l.idx = call[t].link.Index
        /\ call[t].msg.text = "cannot determine network interface index after creation" =>
              /\ Failed(t)
              /\ call[t].lastErr = "ok"

(***************************************************************************)
(* C11: in every state of a call and after it, whether it succeeded or      *)
(* failed and however many names it drew, the description the caller passed *)
(* is one of the descriptions the callers build: no name, no index and no   *)
(* peer name has been written to it and its namespace references are those  *)
(* it was built with; two links made from one description that are alive in *)
(* the same namespace bear different names.                                 *)
(***************************************************************************)
C11_TemplateUntouched ==
    /\ \A t \in Tasks :
          call[t].pc # "idle" =>
              /\ \E r \in Requests : call[t].tmpl = r.arg
              /\ call[t].tmpl.Link.Name = NoName
              /\ call[t].tmpl.Link.PeerName = NoName
              /\ call[t].tmpl.Link.Index = 0
    /\ \A i, j \in 1..Len(cleanups) :
          (i < j /\ cleanups[i].resided = cleanups[j].resided) =>
              cleanups[i].link.Name # cleanups[j].link.Name

\* C11, its case: a second call with the description of the first, after a
\* name collision, has made a second link of another name
C11_Witness ==
    \E t \in Tasks :
        /\ Succeeded(t)
        /\ call[t].adds >= 2
        /\ Len(cleanups) = 2
        /\ [cleanups[1].link EXCEPT !.Name = NoName, !.PeerName = NoName, !.Index = 0]
              = call[t].tmpl.Link
        /\ cleanups[1].link.Name # cleanups[2].link.Name

(***************************************************************************)
(* C12: the description a successful call returns, which is also the one    *)
(* its teardown holds, is a plain link description of the kind passed in:   *)
(* it has no link namespace field, and its destination namespace reference  *)
(* and its other settings are those of the description passed in.           *)
(***************************************************************************)
C12_ReturnsUnwrapped ==
    \A t \in Tasks :
        Succeeded(t) =>
            /\ DOMAIN call[t].link = DOMAIN NoLink
            /\ call[t].link.kind = call[t].tmpl.Link.kind
            /\ call[t].link.Namespace = call[t].tmpl.Link.Namespace
            /\ call[t].link.ParentIndex = call[t].tmpl.Link.ParentIndex
            /\ call[t].link.PeerNamespace = call[t].tmpl.Link.PeerNamespace
            /\ phase = "body" => cleanups[Len(cleanups)].link = call[t].link

\* C12, its case: a description wrapped with a link namespace and bearing a
\* destination namespace
C12_Witness ==
    \E t \in Tasks :
        /\ Succeeded(t)
        /\ call[t].tmpl.wrapped
        /\ Resolution(t).type = "NsFd"
        /\ Destination(t).type = "NsFd"

AsciiDigits == {"0", "1", "2", "3", "4", "5", "6", "7", "8", "9"}

AsciiLetters ==
    {"a", "b", "c", "d", "e", "f", "g", "h", "i", "j", "k", "l", "m",
     "n", "o", "p", "q", "r", "s", "t", "u", "v", "w", "x", "y", "z",
     "A", "B", "C", "D", "E", "F", "G", "H", "I", "J", "K", "L", "M",
     "N", "O", "P", "Q", "R", "S", "T", "U", "V", "W", "X", "Y", "Z"}

(***************************************************************************)
(* C13: link.RandomNifname with a prefix of at most 11 characters returns   *)
(* a name of 15 characters that begins with the prefix and goes on with     *)
(* digits and ASCII letters only; with a longer prefix it fails and returns *)
(* no name.  A call of link.NewTransient with a prefix of more than 11      *)
(* characters fails on its first attempt with the message of the name       *)
(* generator: it has drawn no name, sent no creation request, created no    *)
(* link and registered no teardown.                                         *)
(***************************************************************************)
C13_NameOrFailure ==
    /\ nifname.pc = "done" =>
          IF Len(nifname.prefix) <= 11
          THEN /\ ~nifname.failed
               /\ Len(nifname.name) = 15
               /\ \A i \in 1..Len(nifname.prefix) : nifname.name[i] = nifname.prefix[i]
               /\ \A i \in (Len(nifname.prefix) + 1)..15 :
                     nifname.name[i] \in AsciiDigits \cup AsciiLetters
          ELSE /\ nifname.failed
               /\ nifname.name = NoName
    /\ \A t \in Tasks :
          (call[t].pc # "idle" /\ Len(call[t].prefix) > 11) =>
              /\ call[t].pc \in {"gen", "done"}
              /\ call[t].attempt = 1
              /\ call[t].gens = 0
              /\ call[t].adds = 0
              /\ call[t].created = 0
              /\ ~call[t].registered
              /\ Ended(t) =>
                    /\ Failed(t)
                    /\ call[t].msg.text = "cannot create random network interface name"

\* C13, its case: a name for a prefix of 11 characters, the longest that fits
C13_Witness ==
    /\ nifname.pc = "done"
    /\ Len(nifname.prefix) = 11
    /\ nifname.name[12] = "Z"
    /\ nifname.name[15] = "a"

HandlersOf(id) ==
    Cardinality({ i \in 1..Len(cleanups) : cleanups[i].created = id })
    + Cardinality({ i \in 1..Len(torndown) : torndown[i].created = id })

(***************************************************************************)
(* C14: when a call has created a VETH pair, exactly one teardown is        *)
(* registered for it; the one deletion request of that teardown names the   *)
(* first end, and after the teardown has run no link of the name of the     *)
(* first end and no link of the name of the peer is found in any namespace. *)
(***************************************************************************)
C14_OneTeardownForPair ==
    /\ \A t \in Tasks :
          (call[t].link.kind = "veth" /\ Ended(t) /\ call[t].lastErr = "ok") =>
              HandlersOf(call[t].created) = 1
    /\ \A i \in 1..Len(torndown) :
          torndown[i].link.kind = "veth" =>
              /\ torndown[i].target \subseteq {torndown[i].created}
              /\ \A ns \in Namespaces :
                    /\ LinkByName(links, ns, torndown[i].link.Name) = {}
                    /\ LinkByName(links, ns, torndown[i].link.PeerName) = {}

HasPrefix(name, prefix) ==
    /\ Len(name) >= Len(prefix)
    /\ SubSeq(name, 1, Len(prefix)) = prefix

VethReturned(t) == vethcall[t].pc = "done" /\ vethcall[t].outcome = "ok"

VethOnlyDestination(t) ==
    /\ Unwrap(vethcall[t].veth).l.Namespace # NoNs
    /\ Unwrap(vethcall[t].veth).l.PeerNamespace = NoNs

VethBothNamespaces(t) ==
    /\ Unwrap(vethcall[t].veth).l.Namespace # NoNs
    /\ Unwrap(vethcall[t].veth).l.PeerNamespace # NoNs

C16_TeardownWhereLinkResides ==
    \A i \in 1..Len(torndown) :
        /\ sessions[torndown[i].netnsh].ns = torndown[i].resided
        /\ torndown[i].target = {torndown[i].created}
        /\ torndown[i].err = "ok"
        /\ ~Exists(torndown[i].created)

LastOp(t, op, kind) == prov[t].last.op = op /\ prov[t].last.kind = kind

CloseRegistered(fd) ==
    \/ /\ \E i \in 1..Len(cleanups) : cleanups[i].fd = fd
       /\ nsfds[fd].closes = 0
    \/ /\ \E i \in 1..Len(torndown) : torndown[i].fd = fd
       /\ nsfds[fd].closes = 1

(***************************************************************************)
(* C17: when netns.NewTransient has returned, the thread of the caller is   *)
(* in the network namespace it was in before the call and its pin count is  *)
(* what it was before; the returned descriptor references another           *)
(* namespace, and a handler that closes it is registered: the descriptor is *)
(* open until that handler has run and closed once afterwards.              *)
(***************************************************************************)
C17_NewTransientLeavesCaller ==
    \A t \in Tasks :
        (LastOp(t, "NewTransient", "net") /\ prov[t].last.outcome = "ok") =>
            LET l == prov[t].last
            IN  /\ l.ns1 = l.ns0
                /\ threadNs[t] = l.ns0
                /\ l.pins1 = l.pins0
                /\ pins[t] = l.pins0
                /\ nsfds[l.fd].ns # l.ns0
                /\ CloseRegistered(l.fd)

C17_Witness ==
    \E t \in Tasks :
        /\ LastOp(t, "NewTransient", "net")
        /\ prov[t].last.outcome = "ok"
        /\ prov[t].last.pins0 = 1
        /\ \E i \in 1..Len(torndown) : torndown[i].fd = prov[t].last.fd

(***************************************************************************)
(* C18: while a restore function of netns.EnterTransient has not run, the   *)
(* thread is pinned and in a network namespace other than the original one, *)
(* which is the new one as long as nothing else has switched the thread;    *)
(* when the restore function has run, the thread is in the original         *)
(* namespace, the saved descriptor is closed once and the pin count is one  *)
(* less than before it ran; when its switch back fails, it panics, the pin  *)
(* count stays and the thread is still pinned.                              *)
(***************************************************************************)
C18_EnterAndRestore ==
    \A t \in Tasks :
        LET l == prov[t].last
        IN  /\ \A i \in 1..Len(prov[t].restores) :
                  prov[t].restores[i].kind = "net" =>
                      /\ pins[t] >= 1
                      /\ threadNs[t] # prov[t].restores[i].orig
                      /\ prov[t].restores[i].entered # prov[t].restores[i].orig
            /\ (LastOp(t, "EnterTransient", "net") /\ l.outcome = "ok") =>
                  /\ threadNs[t] = l.ns1
                  /\ l.ns1 # l.ns0
                  /\ l.ns1 \in made
                  /\ pins[t] = l.pins0 + 1
            /\ (LastOp(t, "restore", "net") /\ l.outcome = "ok") =>
                  /\ threadNs[t] = l.ns0
                  /\ nsfds[l.fd].closes = 1
                  /\ pins[t] = l.pinsAt - 1
            /\ (LastOp(t, "restore", "net") /\ l.outcome # "ok") =>
                  /\ l.outcome = "panicked"
                  /\ prov[t].failed
                  /\ pins[t] = l.pinsAt
                  /\ pins[t] >= 1

C18_Witness ==
    \E t \in Tasks :
        /\ LastOp(t, "restore", "net")
        /\ prov[t].last.outcome = "ok"
        /\ prov[t].last.pins0 = 1
        /\ pins[t] = 1
        /\ threadNs[t] = HostNs

(***************************************************************************)
(* C19: the restore function of mntns.EnterTransient never unpins: the pin  *)
(* count after it is the pin count before it, and a task whose restore      *)
(* function has run is pinned ever after; when it has run, the thread is in *)
(* the original mount namespace and the saved descriptor is closed once.    *)
(***************************************************************************)
C19_MntRestoreKeepsPin ==
    \A t \in Tasks :
        LET l == prov[t].last
        IN  /\ LastOp(t, "restore", "mnt") =>
                  /\ l.pins1 = l.pinsAt
                  /\ pins[t] = l.pinsAt
                  /\ l.pinsAt >= 1
            /\ (LastOp(t, "restore", "mnt") /\ l.outcome = "ok") =>
                  /\ threadMnt[t] = l.ns0
                  /\ nsfds[l.fd].closes = 1
            /\ prov[t].mntRestored => pins[t] >= 1

C19_Witness ==
    \E t \in Tasks :
        /\ LastOp(t, "restore", "mnt")
        /\ prov[t].last.outcome = "ok"
        /\ prov[t].last.pins0 = 0
        /\ pins[t] = 1
        /\ threadMnt[t] = HostMnt

ExecuteEnded(t) == LastOp(t, "Execute", "net") /\ prov[t].last.how # "none"

(***************************************************************************)
(* C20: while fn runs, the thread is in the namespace the descriptor passed *)
(* to netns.Execute references; when Execute has ended after fn returned or *)
(* panicked, the thread is in the namespace it was in before the call, the  *)
(* pin count is what it was before, and the descriptor of the original      *)
(* namespace was open at the switch back and is closed once.                *)
(***************************************************************************)
C20_ExecuteRestores ==
    \A t \in Tasks :
        /\ prov[t].exec.pc = "fn" =>
              threadNs[t] = nsfds[prov[t].exec.target].ns
        /\ ExecuteEnded(t) =>
              LET l == prov[t].last
              IN  /\ l.inFn = nsfds[prov[t].last.target].ns
                  /\ threadNs[t] = l.ns0
                  /\ pins[t] = l.pins0
                  /\ l.closesAtSwitch = 0
                  /\ nsfds[l.fd].closes = 1

(***************************************************************************)
(* C20, amended: as C20 when the switch back succeeded; when it failed,     *)
(* Execute fails the test, the thread is still in the namespace fn ran in   *)
(* and still pinned, and the descriptor of the original namespace is closed *)
(* once all the same.                                                       *)
(***************************************************************************)
C20_ExecuteRestoresOrStaysPinned ==
    \A t \in Tasks :
        /\ prov[t].exec.pc = "fn" =>
              threadNs[t] = nsfds[prov[t].exec.target].ns
        /\ ExecuteEnded(t) =>
              LET l == prov[t].last
              IN  /\ l.inFn = nsfds[prov[t].last.target].ns
                  /\ l.closesAtSwitch = 0
                  /\ nsfds[l.fd].closes = 1
                  /\ l.outcome # "failed" =>
                        /\ threadNs[t] = l.ns0
                        /\ pins[t] = l.pins0
                  /\ l.outcome = "failed" =>
                        /\ prov[t].failed
                        /\ threadNs[t] = l.inFn
                        /\ pins[t] = l.pins0 + 1

C20_Witness ==
    \E t \in Tasks :
        /\ ExecuteEnded(t)
        /\ prov[t].last.how = "panic"
        /\ prov[t].last.outcome = "panicked"
        /\ prov[t].last.pins0 = 1
        /\ pins[t] = 1
        /\ threadNs[t] = HostNs
        /\ prov[t].last.inFn # HostNs

(***************************************************************************)
(* C21                                                                      *)
(***************************************************************************)
ExecHelpers == { h \in 1..Len(helpers) : helpers[h].kind = "exec" }

\* netns.Execute: fn runs on a thread that is in the namespace asked for, and
\* a failed switch ends the operation with a failure before fn
NetExecuteOnlyInTarget(t) ==
    LastOp(t, "Execute", "net") =>
        LET l == prov[t].last
        IN  /\ l.outcome = "fn" => threadNs[t] = nsfds[l.target].ns
            /\ l.how # "none" => l.inFn = nsfds[l.target].ns
            /\ (l.outcome = "failed" /\ l.how = "none") =>
                  prov[t].failed /\ prov[t].exec.pc = "none"

\* mntns.Execute: the same of the helper that runs fn
MntExecuteOnlyInTarget(h) ==
    LET hl == helpers[h]
    IN  /\ hl.ranIn # "none" => hl.switched /\ hl.ranIn = hl.requested
        /\ (hl.pc # "start" /\ ~hl.switched) => hl.failed /\ hl.ranIn = "none"

\* C21: when the switch into the target namespace fails, the closure passed
\* to netns.Execute or to mntns.Execute is never run and the operation fails;
\* the closure never runs in a namespace other than the requested one.
C21_ClosureOnlyInTarget ==
    /\ \A t \in Tasks : NetExecuteOnlyInTarget(t)
    /\ \A h \in ExecHelpers : MntExecuteOnlyInTarget(h)

(***************************************************************************)
(* C22                                                                      *)
(***************************************************************************)
IsIdler(h) == h \in 1..Len(helpers) /\ helpers[h].kind = "idler"

Torndown(e) == \E i \in 1..Len(torndown) : torndown[i] = e

TeardownsDone == phase = "cleanup" /\ cleanups = << >>

\* NewTransient has returned the descriptor of the helper and the done
\* channel is still open
IdlerReturnedUnreleased(h) ==
    helpers[h].returned /\ helpers[h].ready = "sent" /\ ~helpers[h].done

IdlerHeldUntilRelease(h) ==
    LET hl == helpers[h]
    IN  /\ IdlerReturnedUnreleased(h) =>
              /\ hl.pc = "idle"
              /\ hl.pins = 1
              /\ hl.mnt # HostMnt
              /\ hl.mnt = nsfds[hl.fd].ns
        /\ (hl.pc = "ended" /\ hl.ready = "sent") => hl.done
        /\ hl.pc # "start" => hl.pins = 1

ReleasedOnceByTeardown(h) ==
    /\ helpers[h].closes <= 1
    /\ helpers[h].done <=> helpers[h].closes = 1
    /\ helpers[h].done <=> Torndown(DoneHandler(h))
    /\ TeardownsDone => helpers[h].closes = 1

\* C22: from the return of mntns.NewTransient until the release signal the
\* helper is locked to its thread and blocked, in the new mount namespace;
\* the release signal is sent exactly once, by the teardown NewTransient
\* registered; the released helper then ends, its thread never unlocked.
C22_HelperHeldThenReleased ==
    /\ [](\A h \in HelperNumbers :
             IsIdler(h) => IdlerHeldUntilRelease(h) /\ ReleasedOnceByTeardown(h))
    /\ \A h \in HelperNumbers :
          (IsIdler(h) /\ helpers[h].done)
              ~> (IsIdler(h) /\ helpers[h].pc = "ended" /\ helpers[h].pins = 1)

C22_Witness ==
    \E h \in HelperNumbers :
        /\ IsIdler(h)
        /\ helpers[h].returned /\ helpers[h].ready = "sent"
        /\ helpers[h].done /\ helpers[h].closes = 1
        /\ helpers[h].pc = "ended" /\ helpers[h].pins = 1
        /\ nsfds[helpers[h].fd].closes = 1

(***************************************************************************)
(* C23                                                                      *)
(***************************************************************************)
\* the caller of mntns.Execute, while it waits and when it goes on, is on a
\* thread in the mount namespace, and with the pins, it had at the call
CallerUntouched(h) ==
    LET hl == helpers[h]
    IN  /\ prov[hl.caller].exec.pc = "mntexec" /\ prov[hl.caller].exec.target = h =>
              /\ threadMnt[hl.caller] = hl.callerMnt
              /\ pins[hl.caller] = hl.callerPins
        /\ hl.returned => hl.callerAfter = hl.callerMnt

\* fn runs on the helper, whose thread is locked and stays so, and the done
\* channel is closed however the helper ends
OnLockedHelper(h) ==
    LET hl == helpers[h]
    IN  /\ hl.pc # "start" => hl.pins = 1
        /\ hl.pc = "ended" => hl.done /\ hl.closes = 1
        /\ hl.pc # "ended" => ~hl.done /\ ~hl.returned

\* C23 as stated: mntns.Execute runs fn on a separate task locked to its own
\* thread and returns only after fn has returned or panicked; the caller's
\* thread is never switched, the separate thread never unlocked.
C23_ReturnsAfterFn ==
    \A h \in ExecHelpers :
        /\ OnLockedHelper(h)
        /\ CallerUntouched(h)
        /\ helpers[h].returned => helpers[h].how \in {"return", "panic"}

\* C23, amended: mntns.Execute returns only after the separate task has
\* ended, that is after fn has returned or panicked, or after the task failed
\* to unshare its filesystem attributes, in which case fn is never run; the
\* caller's thread is never switched, the separate thread never unlocked.
C23_ReturnsAfterHelperEnded ==
    \A h \in ExecHelpers :
        /\ OnLockedHelper(h)
        /\ CallerUntouched(h)
        /\ helpers[h].returned =>
              \/ helpers[h].how \in {"return", "panic"} /\ helpers[h].ranIn # "none"
              \/ helpers[h].how = "none" /\ helpers[h].ranIn = "none" /\ helpers[h].failed

C23_Witness ==
    \E h \in ExecHelpers, g \in ExecHelpers :
        /\ helpers[h].returned /\ helpers[h].how = "panic" /\ helpers[h].pins = 1
        /\ helpers[g].returned /\ helpers[g].how = "none"

(***************************************************************************)
(* C24                                                                      *)
(***************************************************************************)
AllSucceeded == \A t \in Tasks : ~prov[t].failed

Registered(e) == \E i \in 1..Len(cleanups) : cleanups[i] = e

\* a descriptor an operation still needs: the one a pending restore function
\* switches back to, or the one Execute switches back to after fn
HeldByOperation(fd) ==
    \E t \in Tasks :
        \/ \E i \in 1..Len(prov[t].restores) : prov[t].restores[i].fd = fd
        \/ prov[t].exec.pc = "fn" /\ prov[t].exec.orig = fd

OpenRefsAccounted ==
    /\ \A fd \in DOMAIN nsfds :
          /\ nsfds[fd].closes <= 1
          /\ nsfds[fd].closes = 0 => Registered(CloseHandler(fd)) \/ HeldByOperation(fd)
          /\ Registered(CloseHandler(fd)) => nsfds[fd].closes = 0
    /\ \A h \in DOMAIN sessions :
          /\ sessions[h].closes <= 1
          /\ sessions[h].closes = 0 <=> Registered(HandleCloser(h))

NoneOpen ==
    /\ \A fd \in DOMAIN nsfds : nsfds[fd].closes = 1
    /\ \A h \in DOMAIN sessions : sessions[h].closes = 1

\* C24: after successful calls of netns.Current, NewTransient, Execute,
\* EnterTransient with its restore function, and NewNetlinkHandle, and the
\* teardowns of the test node, no descriptor and no netlink handle these
\* operations opened is open, and each was closed exactly once, by the
\* operation itself or by a teardown it registered.
C24_OpenedIsClosedOnce ==
    AllSucceeded => OpenRefsAccounted /\ (TeardownsDone => NoneOpen)

C24_Witness ==
    /\ AllSucceeded
    /\ TeardownsDone
    /\ \E h \in DOMAIN sessions : Torndown(HandleCloser(h)) /\ sessions[h].closes = 1
    /\ \E fd \in DOMAIN nsfds : Torndown(CloseHandler(fd)) /\ nsfds[fd].closes = 1
    /\ \E fd \in DOMAIN nsfds : ~Torndown(CloseHandler(fd)) /\ nsfds[fd].closes = 1

(***************************************************************************)
(* C25                                                                      *)
(***************************************************************************)
NsIDCalls == 1..Len(nsid.calls)

NsIDReturned(i) == nsid.calls[i].why = "none"

\* what one call of NsID gives back
NsIDResult(i) ==
    LET c == nsid.calls[i]
    IN  /\ NsIDReturned(i) => c.ret # -1 /\ c.ret >= 0
        /\ (c.had # -1 /\ c.why \notin {"open", "get"}) =>
              NsIDReturned(i) /\ c.ret = c.had /\ c.sets = 0
        /\ (c.had = -1 /\ NsIDReturned(i)) => c.sets = 1 /\ c.ret \in NsIDDraws
        /\ c.why # "none" => c.sets = 0
        /\ (i = Len(nsid.calls) /\ nsid.pc = "idle") =>
              /\ NsIDReturned(i) => nsid.ids[c.viewer][c.target] = c.ret
              /\ c.why = "attempts" <=> (c.had = -1 /\ nsid.attempt = NsIDAttempts
                                          /\ ~NsIDReturned(i))
              /\ nsid.pathfd # "open"

NsIDAttemptsBounded == nsid.pc = "loop" => nsid.attempt \in 1..NsIDAttempts

\* C25 as stated: NsID never returns -1; it returns the id the namespace has
\* and assigns nothing, or else the id of the one assignment that succeeded
\* within 10 attempts, failing the test after 10 failed ones; a second call
\* for the same namespace returns the id the first call returned.
C25_SecondCallSameId ==
    /\ NsIDAttemptsBounded
    /\ \A i \in NsIDCalls : NsIDResult(i)
    /\ \A i \in NsIDCalls, j \in NsIDCalls :
          (i < j /\ NsIDReturned(i) /\ NsIDReturned(j)
                 /\ nsid.calls[i].target = nsid.calls[j].target)
              => nsid.calls[j].ret = nsid.calls[i].ret

\* C25, amended: the same, with the second call made while the thread is in
\* the network namespace the first call was made in.
C25_SecondCallSameIdSameViewer ==
    /\ NsIDAttemptsBounded
    /\ \A i \in NsIDCalls : NsIDResult(i)
    /\ \A i \in NsIDCalls, j \in NsIDCalls :
          (i < j /\ NsIDReturned(i) /\ NsIDReturned(j)
                 /\ nsid.calls[i].target = nsid.calls[j].target
                 /\ nsid.calls[i].viewer = nsid.calls[j].viewer)
              => nsid.calls[j].ret = nsid.calls[i].ret /\ nsid.calls[j].sets = 0

C25_Witness ==
    \E i \in NsIDCalls, j \in NsIDCalls :
        /\ i < j
        /\ nsid.calls[i].target = nsid.calls[j].target
        /\ nsid.calls[i].viewer = nsid.calls[j].viewer
        /\ nsid.calls[i].had = -1 /\ nsid.calls[i].sets = 1
        /\ NsIDReturned(j) /\ nsid.calls[j].ret = nsid.calls[i].ret
        /\ nsid.calls[j].sets = 0

(***************************************************************************)
(* C26                                                                      *)
(***************************************************************************)
\* the bound of the wait: 2 seconds, or the one duration that was passed
UpBound == IF up.within = << >> THEN 2 * ProbesPerSecond ELSE up.within[1]

\* C26: EnsureUp sets the link up and then polls its operational state; it
\* succeeds at the first poll that reports up or unknown, stops with a
\* failure at the first poll where the lookup of the link fails, and fails
\* with a timeout when neither occurs within the bound, which is 2 seconds
\* unless one bound is passed; more than one bound is rejected.
C26_PollsUntilUpOrStopOrTimeout ==
    /\ up.polls > 0 => up.admin
    /\ up.good <= 1 /\ up.missing <= 1
    /\ up.outcome = "ok" <=> up.good = 1
    /\ up.outcome = "stopped" <=> up.missing = 1
    /\ up.outcome = "timeout" =>
          up.good = 0 /\ up.missing = 0 /\ up.polls > 0 /\ up.elapsed >= UpBound
    /\ up.pc = "polling" => up.polls <= UpBound + 1 /\ up.elapsed <= UpBound + 1
    /\ up.outcome \in {"ok", "stopped", "timeout"} =>
          Len(up.within) <= 1 /\ up.atmost = UpBound /\ up.polls <= UpBound + 1
    /\ (up.pc = "done" /\ Len(up.within) > 1) =>
          up.outcome \in {"rejected", "nil"} /\ ~up.admin /\ up.polls = 0

C26_Witness ==
    /\ up.outcome = "ok"
    /\ up.within = << >>
    /\ up.polls = 2 * ProbesPerSecond + 1
    /\ up.oper = "unknown"

(***************************************************************************)
(* C27                                                                      *)
(***************************************************************************)
\* the call was given an id that a device had when the call began, and it
\* got its devlink connection
NdsCollision == nds.calls > 0 /\ nds.hasID /\ nds.inUse /\ nds.stage # "devlink"

NdsEnded == nds.calls > 0 /\ nds.pc \in {"done", "idle"}

\* C27: given an id of the caller that is in use, netdevsim.NewTransient
\* makes exactly one creation call, fails with a message that names the id,
\* registers no teardown and does not delete the device that has the id.
C27_CollisionFailsAtOnce ==
    NdsCollision =>
        /\ nds.creates <= 1
        /\ nds.registered = 0
        /\ nds.deletes = 0
        /\ ~nds.created
        /\ nds.phase = "body" => nds.ID \in nds.devs
        /\ \A i \in 1..Len(nds.cleanups) :
              nds.cleanups[i].del = nds.ID => nds.calls > 1
        /\ NdsEnded =>
              /\ nds.creates = 1
              /\ nds.outcome = "failed"
              /\ nds.stage = "create"
              /\ nds.msg = nds.ID

C27_Witness ==
    /\ NdsCollision
    /\ NdsEnded
    /\ nds.calls = 2
    /\ nds.creates = 1
    /\ nds.msg = nds.ID
    /\ nds.cleanups = <<DeleteHandler(nds.ID)>>
    /\ nds.ID \in nds.devs

(***************************************************************************)
(* C28                                                                      *)
(***************************************************************************)
NdsScheduled(id) ==
    Cardinality({ i \in 1..Len(nds.cleanups) : nds.cleanups[i] = DeleteHandler(id) })

NdsSucceededAndScheduled ==
    /\ nds.outcome = "ok"
    /\ nds.registered = 1
    /\ NdsScheduled(nds.id) = 1
    /\ nds.deletes = 0
    /\ nds.id \in nds.devs

NdsFailedAndDeleted ==
    /\ nds.outcome = "failed"
    /\ nds.stage \in {"materialize", "vfs", "ports", "rename"}
    /\ nds.deletes = 1
    /\ nds.id \notin nds.devs
    /\ nds.registered = 0
    /\ NdsScheduled(nds.id) = 0

\* C28: when a call of newTransient in which a creation call succeeded ends,
\* either it succeeded and exactly one teardown that deletes the device by
\* its id is registered, or it failed (wait for the device, VFs, names of the
\* ports, renaming) and the device has been deleted; never both, never
\* neither.
C28_DeletedOrScheduled ==
    (nds.created /\ nds.pc = "done") =>
        /\ NdsSucceededAndScheduled \/ NdsFailedAndDeleted
        /\ ~(NdsSucceededAndScheduled /\ NdsFailedAndDeleted)

C28_Witness ==
    /\ nds.created /\ nds.pc = "done"
    /\ NdsFailedAndDeleted
    /\ nds.stage = "rename"
    /\ nds.calls = 2
    /\ \E id \in nds.devs : NdsScheduled(id) = 1

(***************************************************************************)
(* C29                                                                      *)
(***************************************************************************)
\* the entry is named netdevsim followed by the number n
NamedWithNumber(e, n) ==
    LET p == Len(netdevsimDevicePrefix)
    IN  /\ Len(e) > p
        /\ SubSeq(e, 1, p) = netdevsimDevicePrefix
        /\ \A i \in (p + 1)..Len(e) : IsDigit(e[i])
        /\ DecimalValue(SubSeq(e, p + 1, Len(e))) = n

IdTaken(entries, n) == \E e \in entries : NamedWithNumber(e, n)

WithNumber(entries) == { e \in entries : \E n \in 0..99 : NamedWithNumber(e, n) }

IdCalls == { i \in 1..Len(nds.idcalls) : ~nds.idcalls[i].err }

OrdinalsOf(id) ==
    { nds.ports[i].Port : i \in { j \in DOMAIN nds.ports :
          /\ nds.ports[j].Bus = "netdevsim"
          /\ nds.ports[j].Device = DeviceName(id) } }

HighestOrdinal(id) == CHOOSE o \in OrdinalsOf(id) : \A q \in OrdinalsOf(id) : q <= o

\* C30: portNifnames returns the list whose entry i is the name the kernel
\* gave to the port with ordinal i of the device, and whose length is the
\* highest ordinal of the device plus one; no port of another device or of
\* another bus contributes; a device without ports in the listing gives the
\* empty list and no error.
C30_NamesByOrdinal ==
    (nds.nifcall.called /\ ~nds.nifcall.ret.err) =>
        LET id == nds.nifcall.id
            names == nds.nifcall.ret.nifnames
        IN  /\ OrdinalsOf(id) = {} => names = << >>
            /\ OrdinalsOf(id) # {} => Len(names) = HighestOrdinal(id) + 1
            /\ \A o \in OrdinalsOf(id) : names[o + 1] = KernelName("netdevsim", id, o)
            /\ \A i \in 1..Len(names) :
                  names[i] \in {<< >>, KernelName("netdevsim", id, i - 1)}

C30_Witness ==
    /\ nds.nifcall.called /\ ~nds.nifcall.ret.err
    /\ nds.nifcall.id = 1
    /\ Len(nds.nifcall.ret.nifnames) = 2
    /\ Len(nds.ports) = 3
    /\ nds.ports[1].Port = 1 /\ nds.ports[1].Bus = "netdevsim"
    /\ nds.ports[2].Bus = "pci" /\ nds.ports[2].Device = DeviceName(1)
    /\ nds.ports[2].Port = 2
    /\ nds.ports[3].Port = 0 /\ nds.ports[3].Device = DeviceName(1)

(***************************************************************************)
(* C31                                                                      *)
(***************************************************************************)
\* netdevsim.NewTransient has returned and the test node has done nothing
\* since
SimOk ==
    /\ nds.nt.pc = "done"
    /\ nds.nt.outcome = "ok"
    /\ phase = "body"
    /\ ncalls = nds.nt.call

\* the network interfaces of the port of a device with an ordinal
PortLinks(dev, ordinal) ==
    { l \in links : \E i \in DOMAIN nds.simports :
                       /\ nds.simports[i].dev = dev
                       /\ nds.simports[i].Port = ordinal
                       /\ nds.simports[i].link = l.id }

SimRequested == nsfds[nds.nt.NetnsFd].ns

\* C31: on success netdevsim.NewTransient returns one descriptor per port of
\* the new device, in the order of the ordinals of the ports and as many as
\* ports were asked for; each has a generated name of 15 characters that
\* starts with the prefix of the package and carries the requested namespace
\* (none when none was requested); the ports are found by these names in the
\* requested namespace, none of them is in the namespace of the caller, and
\* the thread of the caller is back in its own namespace.
C31_OneDescriptorPerPort ==
    SimOk =>
        LET c == nds.nt
        IN  /\ Len(c.ret) = c.Ports
            /\ \A i \in 1..Len(c.ret) :
                  /\ Len(c.ret[i].Name) = 15
                  /\ HasPrefix(c.ret[i].Name, NetdevsimPrefix)
                  /\ c.NetnsFd = -1 => c.ret[i].Namespace = NoNs
                  /\ c.NetnsFd >= 0 => c.ret[i].Namespace = NsFd(SimRequested)
                  /\ LET where == IF c.NetnsFd >= 0 THEN SimRequested ELSE c.ns0
                     IN  /\ LinkByName(links, where, c.ret[i].Name) # {}
                         /\ LinkByName(links, where, c.ret[i].Name) = PortLinks(c.id, i - 1)
                  /\ c.NetnsFd >= 0 => \A l \in PortLinks(c.id, i - 1) : l.ns # c.ns0
            /\ threadNs[c.task] = c.ns0
            /\ pins[c.task] = c.pins0

C31_Witness ==
    /\ SimOk
    /\ nds.nt.Ports = 2
    /\ nds.nt.NetnsFd >= 0
    /\ nds.nt.tries > 2
    /\ SimRequested # nds.nt.ns0
    /\ Len(nds.nt.ret) = 2
    /\ nds.nt.ret[1].Name # nds.nt.ret[2].Name

(***************************************************************************)
(* C36                                                                      *)
(***************************************************************************)
\* C36: a port of a new device is renamed again with a new name only after
\* an error that says the name is in use, at most 10 times per port and port
\* by port in the order of the ordinals; any other error of a rename fails
\* the operation at once.
C36_RetryOnlyAfterCollision ==
    LET c == nds.nt
    IN  /\ c.retriedAfter \subseteq {"EEXIST"}
        /\ c.attempt <= MaxAttempts
        /\ Len(c.links) \in {c.port - 1, c.port}
        /\ (c.errs \ {"EEXIST"}) # {} => c.outcome = "failed" /\ c.stage = "rename"

(***************************************************************************)
(* C32                                                                      *)
(***************************************************************************)
\* the descriptors the test node holds, which Link and Unlink get passed
HeldByCaller == CallerFds \cup {0}

\* C32: Link and Unlink close every namespace reference they obtained for a
\* side, the duplicate of the reference of the descriptor or the new
\* reference to the current namespace, exactly once on every path, also when
\* the first side was resolved and the second side fails, and they never
\* close the reference the descriptor of the caller carries.
C32_ObtainedClosedOnce ==
    /\ \A fd \in HeldByCaller : nsfds[fd].closes = 0
    /\ \A fd \in DOMAIN nsfds : nsfds[fd].closes <= 1
    /\ \A i \in 1..Len(nds.lk.sides) :
          nds.lk.sides[i].opened # 0 => nds.lk.sides[i].opened \notin HeldByCaller
    /\ nds.lk.pc = "done" =>
          /\ \A fd \in DOMAIN nsfds \ HeldByCaller : nsfds[fd].closes = 1
          /\ \A i \in 1..Len(nds.lk.sides) :
                nds.lk.sides[i].err = "ok" => nsfds[nds.lk.sides[i].opened].closes = 1

C32_Witness ==
    /\ nds.lk.pc = "done"
    /\ nds.lk.op = "Link"
    /\ Len(nds.lk.sides) = 2
    /\ nds.lk.args[1].Namespace = NsFdNumber(1)
    /\ nds.lk.sides[1].err = "ok"
    /\ nds.lk.sides[1].opened = 3
    /\ nds.lk.sides[2].err = "name"
    /\ nsfds[3].closes = 1
    /\ nsfds[1].closes = 0

(***************************************************************************)
(* C33                                                                      *)
(***************************************************************************)
\* the namespace reference a descriptor carries is no open descriptor of a
\* network namespace
InvalidRef(a) ==
    /\ a.Namespace.type = "NsFd"
    /\ \/ DupFails(nsfds, a.Namespace.fd)
       \/ nsfds[a.Namespace.fd].ns = "none"

\* the namespace a descriptor with a valid reference or with none stands for
NamespaceOf(a, t) ==
    IF a.Namespace.type = "NsFd" THEN nsfds[a.Namespace.fd].ns ELSE threadNs[t]

UnknownIndexSide(i) ==
    LET c == nds.lk
        a == c.args[i]
        sd == c.sides[i]
    IN  a.Index = 0 =>
           /\ sd.lookedIn # "none" => sd.lookedIn = NamespaceOf(a, c.task)
           /\ sd.err = "ok" =>
                 /\ sd.lookedIn = NamespaceOf(a, c.task)
                 /\ \E l \in LinkByName(links, NamespaceOf(a, c.task), a.Name) :
                       l.idx = sd.ifindex
           /\ InvalidRef(a) => sd.err # "ok"
           /\ (~InvalidRef(a) /\ LinkByName(links, NamespaceOf(a, c.task), a.Name) = {}) =>
                 sd.err # "ok"
           /\ sd.err # "ok" =>
                 /\ sd.netnsfd = 0
                 /\ sd.opened # 0 => nsfds[sd.opened].closes = 1
                 /\ \A fd \in DOMAIN nsfds \ HeldByCaller : nsfds[fd].closes = 1
                 /\ c.pc = "done"
                 /\ c.outcome = "failed"
                 /\ c.writes = 0
                 /\ Len(c.sides) = i

\* C33: for a side whose index is zero, linkFds looks the index up by name
\* in the namespace the descriptor carries, or in the current namespace of
\* the caller when it carries none; when the name does not exist there or
\* the carried reference is invalid, linkFds returns an error and leaves no
\* reference open, and Link or Unlink fails without a write to the link or
\* unlink file and without another try.
C33_UnknownIndexByName == \A i \in 1..Len(nds.lk.sides) : UnknownIndexSide(i)

C33_Witness ==
    /\ nds.lk.pc = "done"
    /\ nds.lk.op = "Link"
    /\ Len(nds.lk.sides) = 2
    /\ nds.lk.args[1] = PortDesc(PortName, 0, NsFdNumber(2))
    /\ nds.lk.sides[1].err = "ok"
    /\ nds.lk.sides[1].lookedIn = "n2"
    /\ nds.lk.args[2] = PortDesc(NotExist, 0, NsFdNumber(1))
    /\ nds.lk.sides[2].err = "name"
    /\ nds.lk.sides[2].lookedIn = "n1"
    /\ nds.lk.writes = 0
    /\ nds.lk.outcome = "failed"

(***************************************************************************)
(* C34                                                                      *)
(***************************************************************************)
\* after the last operation of a task its thread is not where it was before
\* the operation (for a restore function: before EnterTransient)
NotBack(t) ==
    /\ prov[t].last.op # "none"
    /\ prov[t].last.kind = "net"
    /\ prov[t].last.ns1 # prov[t].last.ns0

NdsAnyId == nds.calls > 0 /\ ~nds.hasID /\ nds.stage # "devlink"

\* the creation call made last failed because a device had the id
NdsTaken == nds.takenAt # -1

\* C35: without an id of the caller, a creation call of newTransient that
\* fails because another task took the id between the scan and the call is
\* followed by a new scan and a new attempt with a newly determined id; at
\* most 10 creation calls are made, after which the operation fails; a failed
\* creation call never deletes a device.
C35_NewScanAfterTakenId ==
    NdsAnyId =>
        /\ nds.creates <= 10
        /\ nds.pc = "attempt" =>
              nds.scans = nds.creates /\ nds.attempt = nds.creates + 1 /\ nds.attempt <= 10
        /\ nds.pc = "create" =>
              /\ nds.scans = nds.creates + 1
              /\ nds.attempt = nds.scans
              /\ NdsTaken => nds.id # nds.takenAt /\ nds.takenAt \in nds.devs
        /\ NdsTaken =>
              \/ nds.pc \in {"attempt", "create"}
              \/ nds.outcome = "failed" /\ nds.stage = "list"
              \/ nds.outcome = "failed" /\ nds.stage = "attempts" /\ nds.creates = 10
        /\ nds.stage = "attempts" => nds.outcome = "failed" /\ nds.creates = 10
        /\ nds.stage # "create"
        /\ ~nds.created => nds.deletes = 0

C35_Witness ==
    /\ NdsAnyId
    /\ nds.pc = "create"
    /\ NdsTaken
    /\ nds.scans = 2
    /\ nds.creates = 1
    /\ nds.creations = 1
    /\ nds.id # nds.takenAt
    /\ nds.deletes = 0

(***************************************************************************)
(* Two tasks that call link.NewTransient at the same time: the steps of     *)
(* the two calls (new name, creation request, index lookup) interleave.     *)
(***************************************************************************)
TwoTasks == {"t1", "t2"}

\* the same prefix: a dummy towards the current namespace, towards n1 by way
\* of Attrs().Namespace, and towards n1 by way of a link namespace, and a
\* VETH towards n1 whose peer stays in the current namespace
TwoTaskRequests ==
    { [arg |-> Wrap(LinkDesc("dummy", p[1], 0, NoNs), p[2]), prefix |-> ShortPrefix] :
        p \in { <<NoNs, NoNs>>, <<NsFd("n1"), NoNs>>, <<NoNs, NsFd("n1")>> } }
    \cup { [arg |-> Plain(LinkDesc("veth", NsFd("n1"), 0, NoNs)), prefix |-> ShortPrefix] }

TwoTaskInit ==
    /\ links = { Loopback("n0", 1), Loopback("n1", 2), Loopback("n2", 3) }
    /\ nextIdx = [n \in Namespaces |-> 2]
    /\ nextId = 4
    /\ threadNs = [t \in TwoTasks |-> HostNs]
    /\ sessions = << >>
    /\ nsfds = << >>
    /\ call = [t \in TwoTasks |-> IdleCall]
    /\ cleanups = << >>
    /\ torndown = << >>
    /\ phase = "body"
    /\ ncalls = 0
    /\ OthersIdle

\* the test node ends when both tasks are out of their calls
TwoTaskEndBody ==
    /\ \A t \in TwoTasks : call[t].pc \in {"idle", "done"}
    /\ EndBody

TwoTaskNext ==
    \/ \E t \in TwoTasks, r \in TwoTaskRequests :
          NewTransientBegin(t, r.arg, r.prefix)
    \/ \E t \in TwoTasks, draws \in RandomDraws, peerdraws \in RandomDraws :
          NewTransientName(t, draws, peerdraws)
    \/ \E t \in TwoTasks : NewTransientLinkAdd(t)
    \/ \E t \in TwoTasks : NewTransientRegister(t)
    \/ TwoTaskEndBody
    \/ RunCleanup

TwoTaskSpec == TwoTaskInit /\ [][TwoTaskNext]_vars

(***************************************************************************)
(* C37                                                                      *)
(***************************************************************************)
\* the namespace a call creates its link for
Towards(c) ==
    IF c.link.Namespace.type = "NsFd" THEN c.link.Namespace.ns
    ELSE IF c.linkNamespace.type = "NsFd" THEN c.linkNamespace.ns
    ELSE c.cur

\* two calls that returned, for the same namespace, before any teardown
BothReturned(t, u) ==
    /\ t # u
    /\ phase = "body"
    /\ call[t].pc = "done" /\ call[t].outcome = "ok"
    /\ call[u].pc = "done" /\ call[u].outcome = "ok"
    /\ call[t].prefix = call[u].prefix
    /\ Towards(call[t]) = Towards(call[u])

\* the handlers registered so far, pending or run
AllHandlers == cleanups \o torndown

\* all links registered so far were created in one namespace
OneNamespace ==
    \A i \in 1..Len(AllHandlers), j \in 1..Len(AllHandlers) :
        AllHandlers[i].resided = AllHandlers[j].resided

\* a creation request of task t came back with a name collision
Collided(t) ==
    /\ call[t].pc = "add"
    /\ call'[t].adds = call[t].adds + 1
    /\ call'[t].lastErr = "EEXIST"

\* C37: two tasks that run link.NewTransient concurrently with the same
\* prefix towards the same namespace never both return the same name; a name
\* collision with an existing link leaves all links as they are; each
\* teardown that has run hit the link created by its own call and nothing
\* else; the links in one namespace have pairwise different names.
C37_ConcurrentNamesDiffer ==
    /\ [](/\ \A t \in TwoTasks, u \in TwoTasks :
                BothReturned(t, u) => call[t].link.Name # call[u].link.Name
          /\ OneNamespace =>
                \A i \in 1..Len(torndown) :
                    torndown[i].target \subseteq {torndown[i].created}
          /\ \A l1 \in links, l2 \in links :
                l1.ns = l2.ns /\ l1.name = l2.name => l1 = l2)
    /\ [][\A t \in TwoTasks : Collided(t) => links' = links]_vars

(***************************************************************************)
(* C38                                                                      *)
(***************************************************************************)
\* a descriptor that something is still going to close: a pending teardown,
\* a restore function not yet called, or an Execute that is running fn
StillOwned(fd) == Registered(CloseHandler(fd)) \/ HeldByOperation(fd)

\* a descriptor of a network namespace
NetRef(fd) == nsfds[fd].ns \notin {HostMnt} \cup { NsPool("mnt")[i] : i \in DOMAIN NsPool("mnt") }

\* C38: on every path, also after a failed creation of the new namespace
\* and a failed switch back, each descriptor opened by netns.EnterTransient,
\* netns.NewTransient and netns.Execute is closed exactly once: it is never
\* closed twice, and while it is open the operation is still running or a
\* restore function or teardown handed out by the operation will close it.
C38_OpenedClosedOnEveryPath ==
    \A fd \in DOMAIN nsfds :
        NetRef(fd) =>
            /\ nsfds[fd].closes <= 1
            /\ nsfds[fd].closes = 0 => StillOwned(fd)

(***************************************************************************)
(* link.NewTransient in a test that itself removes or moves a transient     *)
(* link before the teardowns run.                                           *)
(***************************************************************************)
\* the identities links can have
LinkIds == 1..(2 * MaxCalls + 4)

GoneRequests ==
    { [arg |-> Plain(LinkDesc("dummy", d, 0, NoNs)), prefix |-> ShortPrefix] :
        d \in {NoNs, NsFd("n1")} }
    \cup { [arg |-> Plain(LinkDesc("macvlan", NoNs, 2, NoNs)), prefix |-> ShortPrefix] }

\* the links whose teardown is registered and that are where they were created
Untouched ==
    { l \in links : \E i \in 1..Len(cleanups) :
                       cleanups[i].created = l.id /\ cleanups[i].resided = l.ns }

\* the test deletes a transient link; a MACVLAN goes with its parent
TestDeletesLink(id) ==
    /\ phase = "body"
    /\ \A t \in Tasks : call[t].pc \in {"idle", "done"}
    /\ \E l \in Untouched :
          /\ l.id = id
          /\ links' = LinkDel(links, l.ns, l.idx)
    /\ UNCHANGED <<nextIdx, nextId, threadNs, sessions, nsfds, call, cleanups,
                   torndown, phase, ncalls, others>>

\* the test moves a transient link to another network namespace, where it
\* gets a new index
TestMovesLink(id, n) ==
    /\ phase = "body"
    /\ \A t \in Tasks : call[t].pc \in {"idle", "done"}
    /\ \E l \in Untouched :
          /\ l.id = id
          /\ l.ns # n
          /\ ~InUse(links, n, l.name)
          /\ links' = (links \ {l}) \cup {[l EXCEPT !.ns = n, !.idx = nextIdx[n]]}
          /\ nextIdx' = [nextIdx EXCEPT ![n] = @ + 1]
    /\ UNCHANGED <<nextId, threadNs, sessions, nsfds, call, cleanups,
                   torndown, phase, ncalls, others>>

GoneNext ==
    \/ \E t \in Tasks, r \in GoneRequests :
          NewTransientBegin(t, r.arg, r.prefix)
    \/ \E t \in Tasks, draws \in RandomDraws, peerdraws \in RandomDraws :
          NewTransientName(t, draws, peerdraws)
    \/ \E t \in Tasks : NewTransientLinkAdd(t)
    \/ \E t \in Tasks : NewTransientRegister(t)
    \/ \E id \in LinkIds : TestDeletesLink(id)
    \/ \E id \in LinkIds, n \in Namespaces : TestMovesLink(id, n)
    \/ EndBody
    \/ RunCleanup

GoneSpec == Init /\ [][GoneNext]_vars

(***************************************************************************)
(* C39                                                                      *)
(***************************************************************************)
\* the teardown at position i found no link to delete
DeletionFailed(i) == torndown[i].target = {}

\* C39: the teardown registered by link.NewTransient closes the handle of
\* the destination namespace also when the deletion of the link fails, for
\* example after the link was removed together with its parent or moved to
\* another namespace; a failed deletion is reported as a failure; the handle
\* is open when the deletion request is sent, is closed once, and no handler
\* still to run uses it.
C39_ClosedAlsoWhenDeletionFails ==
    \A i \in 1..Len(torndown) :
        /\ sessions[torndown[i].netnsh].closes = 1
        /\ DeletionFailed(i) => torndown[i].err = "ENODEV"
        /\ ~DeletionFailed(i) => torndown[i].err = "ok"
        /\ torndown[i].used = 0
        /\ \A j \in 1..Len(cleanups) : cleanups[j].netnsh # torndown[i].netnsh
        /\ \A j \in 1..Len(torndown) :
              torndown[j].netnsh = torndown[i].netnsh => j = i

C39_Witness ==
    \E i \in 1..Len(torndown) :
        /\ DeletionFailed(i)
        /\ torndown[i].err = "ENODEV"
        /\ torndown[i].used = 0
        /\ sessions[torndown[i].netnsh].closes = 1
        /\ \E l \in links : l.id = torndown[i].created /\ l.ns # torndown[i].resided

(***************************************************************************)
(* C40                                                                      *)
(***************************************************************************)
\* task t waits in mntns.NewTransient for the message of its helper
WaitsForIdler(t) == prov[t].exec.pc = "mntnew"

\* what the caller of mntns.NewTransient got when it went on
ReceivedFromIdler(h) ==
    LET hl == helpers[h]
    IN  /\ hl.pc = "ended" => hl.ready # "none"
        /\ hl.returned => hl.ready # "none"
        /\ (hl.returned /\ hl.ready = "sent") =>
              /\ ~hl.failed
              /\ hl.fd # 0
              /\ hl.mnt # HostMnt
              /\ nsfds[hl.fd].ns = hl.mnt
        /\ (hl.returned /\ hl.ready = "closed") =>
              /\ hl.failed
              /\ hl.fd = 0
              /\ prov[hl.caller].failed

\* C40: the caller of mntns.NewTransient is never blocked forever: the helper
\* closes the ready channel on every path on which it ends, so a waiting
\* caller goes on, either with the descriptor of the new mount namespace the
\* helper created and remounted, or with the zero value of the closed channel
\* after the helper failed, in which case the caller fails.
C40_CallerNeverBlockedForever ==
    /\ [](\A h \in HelperNumbers : IsIdler(h) => ReceivedFromIdler(h))
    /\ \A t \in Tasks : WaitsForIdler(t) ~> ~WaitsForIdler(t)

C40_Witness ==
    \E h \in HelperNumbers, g \in HelperNumbers :
        /\ IsIdler(h) /\ helpers[h].returned /\ helpers[h].ready = "closed"
        /\ helpers[h].failed /\ prov[helpers[h].caller].failed
        /\ IsIdler(g) /\ helpers[g].returned /\ helpers[g].ready = "sent"

====
